---- MODULE Spec2Model ----
(***************************************************************************)
(* Live detection pipeline of arc_companion.py: the capture/gating loop    *)
(* (main_live), the OCR worker thread (ocr_db_worker), the two queues      *)
(* between them, the hotkey callbacks and the overlay show/hide state.     *)
(*                                                                         *)
(* One tick of main_live is split at the points where the loop touches a   *)
(* queue, so that the worker thread interleaves with it as it can in the   *)
(* program: "capture" (settings reload, gating, detection, dispatch)       *)
(* and "drain" (one get_nowait per step; the one that finds the queue      *)
(* empty goes on to the show/hide decision and ends the tick).             *)
(*                                                                         *)
(* Time is kept as the age of the last OCR dispatch, now - LAST_OCR_TIME,  *)
(* in units of 50 ms and saturated at OCR_MIN_INTERVAL: the only use the   *)
(* loop makes of the two clocks is the test now - LAST_OCR_TIME >=         *)
(* OCR_MIN_INTERVAL.                                                       *)
(***************************************************************************)
EXTENDS Integers, Sequences, FiniteSets, TLC

\* ------------------------------------------------------------------ bounds
\* Highest task id the loop hands out in a checked run.
MaxTasks == 2
\* Highest value of the miss counter the environment is allowed to drive.
MaxMissing == 2
\* Longest pre-filled arrival order of results in SpecDrain.
MaxArrivals == 4

\* --------------------------------------------------------------- constants
MISSING_FRAMES_BEFORE_HIDE == 2
\* queue.Queue(maxsize=4)
TASK_QUEUE_MAXSIZE == 4
\* 0.35 s in units of 50 ms
OCR_MIN_INTERVAL == 7
\* 0.10 s in units of 50 ms
DETECTION_INTERVAL == 2
\* diff_threshold=3.0 of compute_name_roi_hash
HASH_DIFF_THRESHOLD == 3
\* initial value of latest_result_id
INITIAL_RESULT_ID == -1

\* Python's None, one per type so that values stay comparable.
NoneName == "None"
NoneRow == 0
NoneBox == <<>>
NoneHash == -1
NoneKey == << >>
NoneRect == <<>>
NoneTask == [task_id |-> 0, roi_primary |-> 0, roi_secondary |-> 0, panel_box |-> NoneBox]
NoneResult ==
    [task_id |-> 0, name |-> NoneName, row |-> NoneRow, panel_box |-> NoneBox,
     secondary_used |-> FALSE, error |-> ""]

\* ------------------------------------------------------------ item database
\* arc_raider_item_names: rows are referred to by their index (row identity).
ITEM_DB ==
    << [Name |-> "Vulcano 1", Verdict |-> "SELL"],
       [Name |-> "Oil", Verdict |-> "KEEP"] >>

Rows == 1..Len(ITEM_DB)

\* find_item_row_by_name on the lines the modelled screens produce, with
\* ITEM_LOOKUP built from ITEM_DB: "Vulcano 1" and "Oil" normalise to the
\* keys "vulcano l" and "oil" (exact lookup); "xq" has no exact key, no token
\* of length >= 3, no substring relation and similarity 0 to both keys.
find_item_row_by_name(name) ==
    CASE name = "Vulcano 1" -> 1
      [] name = "Oil" -> 2
      [] OTHER -> NoneRow

\* --------------------------------------------------------------- the screen
\* A name region is an integer id; OcrLines is what ocr_item_lines returns
\* for it (cleaned lines, trailing roman numeral already rewritten) and
\* RoiGray its 64x16 grayscale reduction (one mean level).
OcrLines(roi) ==
    CASE roi = 1 -> << "Vulcano 1" >>
      [] roi = 2 -> << "xq" >>
      [] roi = 3 -> << "xq", "Oil" >>
      [] roi = 4 -> << "Vulcano 1" >>
      [] roi = 5 -> << "Oil", "Vulcano 1" >>
      [] roi = 6 -> << "xq", "Vulcano 1", "Oil" >>
      [] OTHER -> << >>

RoiGray(roi) ==
    CASE roi = 1 -> 0
      [] roi = 2 -> 8
      [] roi = 3 -> 16
      [] roi = 4 -> 2
      [] OTHER -> 24

Box1 == <<100, 100, 400, 300>>
Box2 == <<500, 100, 800, 300>>

\* What one grabbed frame yields: the detector's box and the two crops.
NoPanelFrame == [panel_box |-> NoneBox, roi_primary |-> 0, roi_secondary |-> 0]
\* FrameA: the primary crop reads an item name; FrameB: another panel whose
\* primary crop reads no item and whose secondary crop does; FrameC: a panel
\* neither crop of which reads an item.
FrameA == [panel_box |-> Box1, roi_primary |-> 1, roi_secondary |-> 0]
FrameB == [panel_box |-> Box2, roi_primary |-> 2, roi_secondary |-> 3]
FrameC == [panel_box |-> Box1, roi_primary |-> 2, roi_secondary |-> 0]
\* FrameA again with capture noise: its reduction is within the threshold of FrameA's
FrameA2 == [panel_box |-> Box1, roi_primary |-> 4, roi_secondary |-> 0]
Frames == {NoPanelFrame, FrameA, FrameB}

\* Time between two consecutive ticks' clock samples, in units of 50 ms:
\* the nominal cadence and a slow tick.
TickAdvances == {DETECTION_INTERVAL, OCR_MIN_INTERVAL}

\* What a tick's stat of the settings file can find.
SettingsStats == {"none", "on", "off"}

VARIABLES
    pc,                  \* position of main_live inside a tick
    always_on,           \* SETTINGS["always_on"]
    HOTKEY_HELD,
    gating_active, tooltip_active, panel_box,
    last_name, last_row, last_panel_box, last_name_roi_hash, last_used_secondary,
    missing_frames, next_task_id, latest_result_id,
    res,                 \* the result the drain loop fetched last in this tick
    ocr_age,             \* min(now - LAST_OCR_TIME, OCR_MIN_INTERVAL)
    hash_cache,          \* _cache["prev_gray"] of compute_name_roi_hash
    ocr_task_queue, ocr_result_queue,
    worker_pc, worker_task, OCR_API,
    TOOLTIP_VISIBLE, HELPER_SCREEN_RECT, LAST_SHOWN_ROW, LAST_SHOWN_PANEL_BOX,
    TOOLTIP_NEEDS_REFRESH, TOOLTIP_IMAGE_CACHE, TOOLTIP_CACHE_KEY, USER_VERDICTS,
    enqueued, dequeued, produced, drained, accepted,  \* history of task/result ids
    superseded_id,       \* history: highest task id handed out before the last loss or release
    clock,               \* history: ticks since the last dispatch and the lateness of the clock read
    fn, arg, ret         \* a call of one of the pure functions: its name, arguments and results

loop_vars ==
    << pc, always_on, gating_active, tooltip_active, panel_box,
       last_name, last_row, last_panel_box, last_name_roi_hash, last_used_secondary,
       missing_frames, next_task_id, latest_result_id, res, ocr_age, hash_cache >>

overlay_vars ==
    << TOOLTIP_VISIBLE, HELPER_SCREEN_RECT, LAST_SHOWN_ROW, LAST_SHOWN_PANEL_BOX,
       TOOLTIP_NEEDS_REFRESH, TOOLTIP_IMAGE_CACHE, TOOLTIP_CACHE_KEY, USER_VERDICTS >>

worker_vars == << worker_pc, worker_task, OCR_API >>

history_vars == << enqueued, dequeued, produced, drained, accepted, superseded_id, clock >>
call_vars == << fn, arg, ret >>

vars ==
    << loop_vars, HOTKEY_HELD, ocr_task_queue, ocr_result_queue, worker_vars,
       overlay_vars, history_vars, call_vars >>


Min(a, b) == IF a < b THEN a ELSE b
Abs(a) == IF a < 0 THEN -a ELSE a
SeqMax(s, floor) ==
    IF s = << >> THEN floor
    ELSE CHOOSE m \in {s[i] : i \in DOMAIN s} : \A i \in DOMAIN s : s[i] <= m

\* ------------------------------------------------------------- the queues
\* ocr_task_queue.put_nowait(task): queue.Full is caught and the task dropped.
QueueFull(q) == Len(q) >= TASK_QUEUE_MAXSIZE
put_nowait_Unbounded(q, task) == Append(q, task)
put_nowait_Front(q, task) == IF QueueFull(q) THEN q ELSE << task >> \o q
put_nowait(q, task) == IF QueueFull(q) THEN q ELSE Append(q, task)

\* ------------------------------------------------- compute_name_roi_hash
\* Returns the cached hash when the new reduction is within the threshold of
\* the cached one, else the new reduction's bytes (here: its gray level).
HashHit_Exact(gray, cache) == cache # NoneHash /\ gray = cache
HashHit(gray, cache) == cache # NoneHash /\ Abs(gray - cache) < HASH_DIFF_THRESHOLD
compute_name_roi_hash(roi, cache) == IF HashHit(RoiGray(roi), cache) THEN cache ELSE RoiGray(roi)
NextHashCache(roi, cache) == IF HashHit(RoiGray(roi), cache) THEN cache ELSE RoiGray(roi)

\* --------------------------------------------------- decisions of main_live
\* always_on or HOTKEY_HELD
GatingActive(ao, held) == ao \/ held
\* roi_hash is not None and roi_hash != last_name_roi_hash
HashChanged_Always(h, last) == h # NoneHash
HashChanged(h, last) == h # NoneHash /\ h # last
\* now - LAST_OCR_TIME >= OCR_MIN_INTERVAL
IntervalElapsed_Always(age) == TRUE
IntervalElapsed(age) == age >= OCR_MIN_INTERVAL
\* missing_frames >= MISSING_FRAMES_BEFORE_HIDE
MissThresholdReached_FirstMiss(m) == m >= 1
MissThresholdReached(m) == m >= MISSING_FRAMES_BEFORE_HIDE
\* last_name is not None or last_row is not None or last_panel_box is not None
HasResolvedState_NoBox(n, r, b) == n # NoneName \/ r # NoneRow
HasResolvedState(n, r, b) == n # NoneName \/ r # NoneRow \/ b # NoneBox
\* tooltip_active = gating_active and (last_panel_box is not None)
TooltipActive(gating, box) == gating /\ box # NoneBox
\* if rid < latest_result_id: continue
IsStale_NoFilter(rid, latest) == FALSE
IsStale(rid, latest) == rid < latest
\* the result is applied only on a tick where the tooltip is active
ResultApplies_Always(active) == TRUE
ResultApplies(active) == active
\* if err: ... continue
HasError_Ignored(r) == FALSE
HasError(r) == r.error # ""
\* if name and row is not None
IsResolved_Always(r) == TRUE
IsResolved(r) == r.name # NoneName /\ r.name # "" /\ r.row # NoneRow

\* hide_helper_tooltip(): the window is withdrawn and HELPER_SCREEN_RECT = None
HiddenRect_Kept(rect) == rect
HiddenRect(rect) == NoneRect

\* No pure function is being examined.
NoCall == fn = "none" /\ arg = << >> /\ ret = << >>

\* ------------------------------------------------------------ tick counting
\* A history of the ticks since the last dispatch attempt (counted up to
\* MaxTicks) and of how late in its tick the last tick read time.time() at
\* line 3673, in units of 50 ms. Specifications that do not count ticks start
\* it at NoClock, where it stays.
MaxTicks == 5
NoClock == [ticks |-> -1, late |-> 0]
StartClock == [ticks |-> MaxTicks, late |-> 0]
NextClock(c, dispatch, dt) ==
    IF c = NoClock THEN NoClock
    ELSE [ticks |-> IF dispatch THEN 0 ELSE Min(c.ticks + 1, MaxTicks),
          late |-> c.late + dt - DETECTION_INTERVAL]

\* ------------------------------------------------------- the capture phase
\* Lines 3633-3718 of one tick: settings reload, gating, detection, dispatch,
\* miss counter, release. The tick's inputs: saved is what the stat of the
\* settings file finds ("none": no newer mtime; "on"/"off": a newer file and
\* the always_on it holds), f what the grabbed frame yields, dt the time since
\* the previous tick's clock sample. cap bounds the task ids of a run.
CaptureTick(f, dt, saved, cap) ==
    /\ pc = "capture"
    /\ LET reload == saved # "none"
           ao == IF reload THEN saved = "on" ELSE always_on
           gating == GatingActive(ao, HOTKEY_HELD)
           age == Min(ocr_age + dt, OCR_MIN_INTERVAL)
           found == gating /\ f.panel_box # NoneBox
           h == compute_name_roi_hash(f.roi_primary, hash_cache)
           dispatch == found /\ HashChanged(h, last_name_roi_hash) /\ IntervalElapsed(age)
           missed == gating /\ ~found
           lost == missed /\ MissThresholdReached(missing_frames + 1)
           release == ~gating /\ HasResolvedState(last_name, last_row, last_panel_box)
           clear == lost \/ release
           task == [task_id |-> next_task_id + 1, roi_primary |-> f.roi_primary,
                    roi_secondary |-> f.roi_secondary, panel_box |-> f.panel_box]
           box == IF found THEN f.panel_box ELSE IF clear THEN NoneBox ELSE last_panel_box
       IN  /\ dispatch => next_task_id < cap
           /\ missed => missing_frames < MaxMissing
           /\ always_on' = ao
           /\ TOOLTIP_IMAGE_CACHE' = IF reload THEN {} ELSE TOOLTIP_IMAGE_CACHE
           /\ TOOLTIP_NEEDS_REFRESH' = (reload \/ TOOLTIP_NEEDS_REFRESH)
           /\ gating_active' = gating
           /\ panel_box' = IF found THEN f.panel_box ELSE NoneBox
           /\ missing_frames' = IF missed THEN missing_frames + 1 ELSE 0
           /\ last_panel_box' = box
           /\ hash_cache' = IF found THEN NextHashCache(f.roi_primary, hash_cache) ELSE hash_cache
           /\ last_name_roi_hash' =
                IF dispatch THEN h ELSE IF clear THEN NoneHash ELSE last_name_roi_hash
           /\ ocr_age' = IF dispatch THEN 0 ELSE age
           /\ next_task_id' = IF dispatch THEN next_task_id + 1 ELSE next_task_id
           /\ ocr_task_queue' = IF dispatch THEN put_nowait(ocr_task_queue, task) ELSE ocr_task_queue
           /\ enqueued' =
                IF dispatch /\ put_nowait(ocr_task_queue, task) # ocr_task_queue
                THEN Append(enqueued, task.task_id) ELSE enqueued
           /\ last_name' = IF clear THEN NoneName ELSE last_name
           /\ last_row' = IF clear THEN NoneRow ELSE last_row
           /\ last_used_secondary' = IF clear THEN FALSE ELSE last_used_secondary
           \* hide_helper_tooltip(); LAST_SHOWN_ROW = None; LAST_SHOWN_PANEL_BOX = None
           /\ TOOLTIP_VISIBLE' = IF clear THEN FALSE ELSE TOOLTIP_VISIBLE
           /\ HELPER_SCREEN_RECT' = IF clear THEN HiddenRect(HELPER_SCREEN_RECT) ELSE HELPER_SCREEN_RECT
           /\ LAST_SHOWN_ROW' = IF clear THEN NoneRow ELSE LAST_SHOWN_ROW
           /\ LAST_SHOWN_PANEL_BOX' = IF clear THEN NoneBox ELSE LAST_SHOWN_PANEL_BOX
           /\ tooltip_active' = TooltipActive(gating, box)
           /\ superseded_id' = IF clear THEN next_task_id ELSE superseded_id
           /\ clock' = NextClock(clock, dispatch, dt)
    /\ pc' = "drain"
    /\ UNCHANGED << HOTKEY_HELD, latest_result_id, res, ocr_result_queue, worker_vars,
                    TOOLTIP_CACHE_KEY, USER_VERDICTS, dequeued, produced, drained, accepted,
                    call_vars >>


\* ------------------------------------------------------ verdict and overlay
DictGet(d, k, default) == IF k \in DOMAIN d THEN d[k] ELSE default

\* str.upper() and str.strip() on the verdicts and item names of the model
str_upper(s) ==
    CASE s = "keep" -> "KEEP"
      [] s = "Sell" -> "SELL"
      [] OTHER -> s
str_strip(s) ==
    CASE s = "Oil " -> "Oil"
      [] s = " " -> ""
      [] OTHER -> s

\* get_effective_verdict(row, detected_name) for a database row; a missing
\* override is None, which is as false as the empty string.
get_effective_verdict(row, overrides) ==
    LET base == str_upper(row.Verdict)
        name_key == str_strip(row.Name)
        override == IF name_key # "" THEN DictGet(overrides, name_key, "") ELSE ""
        eff == str_upper(IF override # "" THEN override ELSE base)
    IN  IF eff # "" THEN eff ELSE "UNKNOWN"

\* The key get_photo(False) stores the rendered image under.
ImageCacheKey(row, overrides) ==
    << ITEM_DB[row].Name, get_effective_verdict(ITEM_DB[row], overrides) >>

\* HELPER_SCREEN_RECT as show_helper_tooltip leaves it for a panel with room
\* on its right and no pointer nearby, on the 1920x1080 reference screen:
\* x = gx2 + gap_x, y = gy1 + gap_y (gy1 on the secondary-crop path), for an
\* overlay of 300x200.
ShownRect_Left(box, used_secondary) ==
    LET x == box[1] - 4 - 300
        y == IF used_secondary THEN box[2] ELSE box[2] + 46
    IN  << x, y, x + 300, y + 200 >>
ShownRect(box, used_secondary) ==
    LET x == box[3] + 4
        y == IF used_secondary THEN box[2] ELSE box[2] + 46
    IN  << x, y, x + 300, y + 200 >>

\* --------------------------------------------------------- the drain phase
\* One iteration of the drain loop (lines 3720-3761): get_nowait, the id
\* filter, the tooltip_active, error and row branches.
DrainOne ==
    /\ pc = "drain"
    /\ ocr_result_queue # << >>
    /\ LET got == Head(ocr_result_queue)
           rid == got.task_id
           stale == IsStale(rid, latest_result_id)
           applies == ~stale /\ ResultApplies(tooltip_active) /\ ~HasError(got)
           set == applies /\ IsResolved(got)
           unset == applies /\ ~IsResolved(got)
       IN  /\ ocr_result_queue' = Tail(ocr_result_queue)
           /\ res' = Head(ocr_result_queue)
           /\ drained' = Append(drained, rid)
           /\ accepted' = IF stale THEN accepted ELSE Append(accepted, rid)
           /\ latest_result_id' = IF stale THEN latest_result_id ELSE rid
           /\ last_name' = IF set THEN got.name ELSE IF unset THEN NoneName ELSE last_name
           /\ last_row' = IF set THEN got.row ELSE IF unset THEN NoneRow ELSE last_row
           /\ last_used_secondary' =
                IF set THEN got.secondary_used ELSE IF unset THEN FALSE ELSE last_used_secondary
           /\ TOOLTIP_VISIBLE' = IF unset THEN FALSE ELSE TOOLTIP_VISIBLE
           /\ HELPER_SCREEN_RECT' = IF unset THEN HiddenRect(HELPER_SCREEN_RECT) ELSE HELPER_SCREEN_RECT
           /\ LAST_SHOWN_ROW' = IF unset THEN NoneRow ELSE LAST_SHOWN_ROW
           /\ LAST_SHOWN_PANEL_BOX' = IF unset THEN NoneBox ELSE LAST_SHOWN_PANEL_BOX
    /\ UNCHANGED << pc, always_on, HOTKEY_HELD, gating_active, tooltip_active,
                    panel_box, last_panel_box, last_name_roi_hash, missing_frames, next_task_id,
                    ocr_age, hash_cache, ocr_task_queue, worker_vars, TOOLTIP_NEEDS_REFRESH,
                    TOOLTIP_IMAGE_CACHE, TOOLTIP_CACHE_KEY, USER_VERDICTS, enqueued, dequeued, produced,
                    superseded_id, clock, call_vars >>

\* ------------------------------------------------------ the end of a tick
\* get_nowait raises queue.Empty and the drain loop ends; then lines 3763-3796,
\* the show/hide decision and the sleep. Nothing between the two reads a
\* queue or a flag another thread writes, so they are one step. The local res
\* is dead outside the drain loop and is forgotten here.
ShouldShow(active, box, row) == active /\ box # NoneBox /\ row # NoneRow
NeedsRender_RowOnly(row, box, shown_row, shown_box, refresh) == row # shown_row
NeedsRender(row, box, shown_row, shown_box, refresh) ==
    row # shown_row \/ box # shown_box \/ refresh

FinishTick ==
    /\ pc = "drain"
    /\ ocr_result_queue = << >>
    /\ LET show == ShouldShow(tooltip_active, last_panel_box, last_row)
           render == show /\ NeedsRender(last_row, last_panel_box, LAST_SHOWN_ROW,
                                         LAST_SHOWN_PANEL_BOX, TOOLTIP_NEEDS_REFRESH)
           hide == ~show /\ (LAST_SHOWN_ROW # NoneRow \/ LAST_SHOWN_PANEL_BOX # NoneBox)
       IN  /\ TOOLTIP_VISIBLE' = IF render THEN TRUE ELSE IF hide THEN FALSE ELSE TOOLTIP_VISIBLE
           /\ HELPER_SCREEN_RECT' =
                IF render THEN ShownRect(last_panel_box, last_used_secondary)
                ELSE IF hide THEN HiddenRect(HELPER_SCREEN_RECT) ELSE HELPER_SCREEN_RECT
           /\ TOOLTIP_IMAGE_CACHE' =
                IF render THEN TOOLTIP_IMAGE_CACHE \cup {ImageCacheKey(last_row, USER_VERDICTS)}
                ELSE TOOLTIP_IMAGE_CACHE
           /\ TOOLTIP_CACHE_KEY' =
                IF render THEN ImageCacheKey(last_row, USER_VERDICTS) ELSE TOOLTIP_CACHE_KEY
           /\ LAST_SHOWN_ROW' = IF render THEN last_row ELSE IF hide THEN NoneRow ELSE LAST_SHOWN_ROW
           /\ LAST_SHOWN_PANEL_BOX' =
                IF render THEN last_panel_box ELSE IF hide THEN NoneBox ELSE LAST_SHOWN_PANEL_BOX
           /\ TOOLTIP_NEEDS_REFRESH' = IF render THEN FALSE ELSE TOOLTIP_NEEDS_REFRESH
    /\ res' = NoneResult
    /\ pc' = "capture"
    /\ UNCHANGED << always_on, HOTKEY_HELD, gating_active, tooltip_active,
                    panel_box, last_name, last_row, last_panel_box, last_name_roi_hash,
                    last_used_secondary, missing_frames, next_task_id, latest_result_id,
                    ocr_age, hash_cache, ocr_task_queue, ocr_result_queue, worker_vars,
                    USER_VERDICTS, history_vars, call_vars >>

\* ------------------------------------------------------------ the OCR worker
FirstResolving_Last(lines) ==
    LET hits == {i \in DOMAIN lines : find_item_row_by_name(lines[i]) # NoneRow}
        last == CHOOSE i \in hits : \A j \in hits : j <= i
    IN  IF hits = {} THEN [name |-> NoneName, row |-> NoneRow]
        ELSE [name |-> lines[last], row |-> find_item_row_by_name(lines[last])]
RECURSIVE FirstResolving(_)
\* for ln in lines: r = find_item_row_by_name(ln); if r is not None: ... break
FirstResolving(lines) ==
    IF lines = << >> THEN [name |-> NoneName, row |-> NoneRow]
    ELSE IF find_item_row_by_name(Head(lines)) # NoneRow
         THEN [name |-> Head(lines), row |-> find_item_row_by_name(Head(lines))]
         ELSE FirstResolving(Tail(lines))

\* The result the try block of ocr_db_worker puts for a task (lines 2238-2271).
OcrResult(task) ==
    LET primary == FirstResolving(OcrLines(task.roi_primary))
        secondary == FirstResolving(OcrLines(task.roi_secondary))
        use_secondary == primary.row = NoneRow /\ secondary.row # NoneRow
        hit == IF use_secondary THEN secondary ELSE primary
    IN  [task_id |-> task.task_id, name |-> hit.name, row |-> hit.row,
         panel_box |-> task.panel_box, secondary_used |-> use_secondary, error |-> ""]

\* The result the except block puts (lines 2272-2282).
ErrorResult(task) ==
    [task_id |-> task.task_id, name |-> NoneName, row |-> NoneRow,
     panel_box |-> task.panel_box, secondary_used |-> FALSE, error |-> "error"]

TaskResult(task, raises) == IF raises THEN ErrorResult(task) ELSE OcrResult(task)

\* init_ocr() at the head of the worker thread.
WorkerStart ==
    /\ worker_pc = "init"
    /\ OCR_API' = "api"
    /\ worker_pc' = "get"
    /\ UNCHANGED << loop_vars, HOTKEY_HELD, ocr_task_queue, ocr_result_queue, worker_task,
                    overlay_vars, history_vars, call_vars >>

\* task = ocr_task_queue.get(): blocks while the queue is empty; the sentinel
\* None ends the loop and the finally block releases the engine.
IsSentinel_Never(task) == FALSE
IsSentinel(task) == task = NoneTask
WorkerKeeps_Peek(q) == q
WorkerKeeps(q) == Tail(q)

WorkerGet ==
    /\ worker_pc = "get"
    /\ ocr_task_queue # << >>
    /\ LET task == Head(ocr_task_queue)
       IN  /\ ocr_task_queue' = WorkerKeeps(ocr_task_queue)
           /\ worker_task' = task
           /\ worker_pc' = IF IsSentinel(task) THEN "done" ELSE "process"
           /\ OCR_API' = IF IsSentinel(task) THEN "None" ELSE OCR_API
           /\ dequeued' = IF IsSentinel(task) THEN dequeued ELSE Append(dequeued, task.task_id)
    /\ UNCHANGED << loop_vars, HOTKEY_HELD, ocr_result_queue, overlay_vars,
                    enqueued, produced, drained, accepted, superseded_id, clock, call_vars >>

\* The body of one iteration: OCR and matching, or the exception path; one
\* result is put either way and the worker returns to get().
WorkerNextPc_Dies(raises) == IF raises THEN "done" ELSE "get"
WorkerNextPc(raises) == "get"

WorkerProcess(raises) ==
    /\ worker_pc = "process"
    /\ ocr_result_queue' = Append(ocr_result_queue, TaskResult(worker_task, raises))
    /\ produced' = Append(produced, worker_task.task_id)
    /\ worker_task' = NoneTask
    /\ worker_pc' = WorkerNextPc(raises)
    /\ UNCHANGED << loop_vars, HOTKEY_HELD, ocr_task_queue, OCR_API, overlay_vars,
                    enqueued, dequeued, drained, accepted, superseded_id, clock, call_vars >>

\* ------------------------------------------------------------- the hotkey
\* on_press / on_click(pressed=True) for the hold hotkey
HotkeyPress ==
    /\ pc = "capture"
    /\ HOTKEY_HELD' = TRUE
    /\ UNCHANGED << loop_vars, ocr_task_queue, ocr_result_queue, worker_vars,
                    overlay_vars, history_vars, call_vars >>

\* on_release / on_click(pressed=False)
HotkeyRelease ==
    /\ pc = "capture"
    /\ HOTKEY_HELD' = FALSE
    /\ UNCHANGED << loop_vars, ocr_task_queue, ocr_result_queue, worker_vars,
                    overlay_vars, history_vars, call_vars >>

\* ------------------------------------------------------ the specification
\* The state run_helper leaves when main_live enters its loop.
InitLoop ==
    /\ pc = "capture"
    /\ always_on \in BOOLEAN
    /\ HOTKEY_HELD = FALSE
    /\ gating_active = FALSE
    /\ tooltip_active = FALSE
    /\ panel_box = NoneBox
    /\ last_name = NoneName
    /\ last_row = NoneRow
    /\ last_panel_box = NoneBox
    /\ last_name_roi_hash = NoneHash
    /\ last_used_secondary = FALSE
    /\ missing_frames = 0
    /\ next_task_id = 0
    /\ latest_result_id = INITIAL_RESULT_ID
    /\ res = NoneResult
    /\ ocr_age = OCR_MIN_INTERVAL
    /\ hash_cache = NoneHash
    /\ ocr_task_queue = << >>
    /\ worker_pc = "init"
    /\ worker_task = NoneTask
    /\ OCR_API = "None"
    /\ TOOLTIP_VISIBLE = FALSE
    /\ HELPER_SCREEN_RECT = NoneRect
    /\ LAST_SHOWN_ROW = NoneRow
    /\ LAST_SHOWN_PANEL_BOX = NoneBox
    /\ TOOLTIP_NEEDS_REFRESH = FALSE
    /\ TOOLTIP_IMAGE_CACHE = {}
    /\ TOOLTIP_CACHE_KEY = NoneKey
    /\ USER_VERDICTS = << >>
    /\ enqueued = << >>
    /\ dequeued = << >>
    /\ produced = << >>
    /\ drained = << >>
    /\ accepted = << >>
    /\ superseded_id = 0

Init ==
    /\ InitLoop
    /\ ocr_result_queue = << >>
    /\ clock = NoClock
    /\ NoCall

Next ==
    \/ \E f \in Frames, dt \in TickAdvances, saved \in SettingsStats :
            CaptureTick(f, dt, saved, MaxTasks)
    \/ DrainOne
    \/ FinishTick
    \/ WorkerStart
    \/ WorkerGet
    \/ \E raises \in BOOLEAN : WorkerProcess(raises)
    \/ HotkeyPress
    \/ HotkeyRelease

Spec == Init /\ [][Next]_vars


\* ------------------------------------------- the drain on any arrival order
\* The single FIFO worker delivers results in dispatch order, so the drain's
\* id filter is exercised here on arrival orders an environment chooses: a
\* result for any of DrainIds may arrive at any time, MaxArrivals in all.
DrainIds == {3, 5, 6, 7}

ArrivalResult(id) ==
    LET row == IF id \in {3, 6} THEN 1 ELSE 2
    IN  [task_id |-> id, name |-> ITEM_DB[row].Name, row |-> row,
         panel_box |-> Box1, secondary_used |-> FALSE, error |-> ""]

ResultArrives(id) ==
    /\ Len(drained) + Len(ocr_result_queue) < MaxArrivals
    /\ ocr_result_queue' = Append(ocr_result_queue, ArrivalResult(id))
    /\ UNCHANGED << loop_vars, HOTKEY_HELD, ocr_task_queue, worker_vars, overlay_vars,
                    history_vars, call_vars >>

NextDrain ==
    \/ \E f \in {NoPanelFrame, FrameA} : CaptureTick(f, OCR_MIN_INTERVAL, "none", MaxTasks)
    \/ DrainOne
    \/ FinishTick
    \/ \E id \in DrainIds : ResultArrives(id)

SpecDrain == Init /\ [][NextDrain]_vars

\* What a drained result can change besides the filter's own book-keeping.
VisibleState ==
    << last_name, last_row, last_used_secondary, TOOLTIP_VISIBLE, HELPER_SCREEN_RECT,
       LAST_SHOWN_ROW, LAST_SHOWN_PANEL_BOX >>

IsRunningMax(s, i) == \A j \in 1..(i - 1) : s[j] <= s[i]

RECURSIVE RunningMaxima(_)
RunningMaxima(s) ==
    IF s = << >> THEN << >>
    ELSE LET front == SubSeq(s, 1, Len(s) - 1)
         IN  IF IsRunningMax(s, Len(s)) THEN Append(RunningMaxima(front), s[Len(s)])
             ELSE RunningMaxima(front)

\* C1: a drained result changes the visible state only if its task id is not
\* lower than every id drained before it; the results that pass the id filter
\* are exactly those, so arrivals 5, 3, 7, 6 let 5 then 7 through and discard
\* 3 and 6.
C1_OnlyNewestResultApplies ==
    [][ drained' # drained =>
          LET rid == drained'[Len(drained')]
          IN  /\ VisibleState' # VisibleState => \A i \in DOMAIN drained : drained[i] <= rid
              /\ accepted' = RunningMaxima(drained')
              /\ drained' = << 5, 3, 7, 6 >> => accepted' = << 5, 7 >> ]_vars

C1_Witness ==
    /\ drained = << 5, 3, 7, 6 >>
    /\ accepted = << 5, 7 >>
    /\ latest_result_id = 7
    /\ tooltip_active
    /\ last_row = ArrivalResult(7).row

\* ------------------------------------------------------------ the gating rules
\* A step of the capture phase of a tick, and a step that drains one result.
IsCaptureStep == pc = "capture" /\ pc' = "drain"
IsDrainStep == drained' # drained

ResolvedCleared ==
    \/ last_name # NoneName /\ last_name' = NoneName
    \/ last_row # NoneRow /\ last_row' = NoneRow
    \/ last_panel_box # NoneBox /\ last_panel_box' = NoneBox
    \/ last_name_roi_hash # NoneHash /\ last_name_roi_hash' = NoneHash
    \/ TOOLTIP_VISIBLE /\ ~TOOLTIP_VISIBLE'

\* C2: while gating is active the capture phase clears the resolved state or
\* hides the overlay only on a tick without a panel whose miss counter has
\* reached MISSING_FRAMES_BEFORE_HIDE; a tick without a panel adds one to the
\* counter and, below the threshold, leaves the resolved name, row, panel box
\* and the overlay's visibility as they were; a tick with a panel sets the
\* counter to 0.
C2_MissCounterHysteresis ==
    [][ (IsCaptureStep /\ gating_active') =>
          /\ panel_box' # NoneBox => missing_frames' = 0
          /\ (panel_box' = NoneBox /\ gating_active) => missing_frames' = missing_frames + 1
          /\ ResolvedCleared =>
                panel_box' = NoneBox /\ missing_frames' >= MISSING_FRAMES_BEFORE_HIDE
          /\ (panel_box' = NoneBox /\ missing_frames' < MISSING_FRAMES_BEFORE_HIDE) =>
                /\ last_name' = last_name
                /\ last_row' = last_row
                /\ last_panel_box' = last_panel_box
                /\ TOOLTIP_VISIBLE' = TOOLTIP_VISIBLE ]_vars

\* A single missed tick with the overlay still showing the resolved row.
C2_Witness ==
    /\ pc = "drain" /\ gating_active /\ panel_box = NoneBox
    /\ missing_frames = 1
    /\ last_row # NoneRow /\ last_panel_box # NoneBox
    /\ TOOLTIP_VISIBLE

\* C3: after every tick with gating inactive, from its capture phase on, the
\* resolved name, row and panel box are None, the miss counter is 0, the
\* overlay is not visible and LAST_SHOWN_ROW is None: the release takes effect
\* in the same tick, without debounce.
C3_ReleaseClearsAtOnce ==
    ~gating_active =>
        /\ last_name = NoneName
        /\ last_row = NoneRow
        /\ last_panel_box = NoneBox
        /\ missing_frames = 0
        /\ ~TOOLTIP_VISIBLE
        /\ LAST_SHOWN_ROW = NoneRow
        /\ LAST_SHOWN_PANEL_BOX = NoneBox

\* The tick right after the overlay was rendered for a panel finds the hotkey
\* released.
C3_Witness ==
    /\ pc = "drain" /\ ~gating_active /\ ~always_on /\ ~HOTKEY_HELD
    /\ TOOLTIP_IMAGE_CACHE # {}
    /\ hash_cache # NoneHash
    /\ last_row = NoneRow /\ ~TOOLTIP_VISIBLE /\ LAST_SHOWN_ROW = NoneRow

\* C4: a tick ends only once the result queue was found empty, whether gating
\* is active or not, and a result drained on a tick with gating inactive
\* changes none of last_name, last_row, last_used_secondary; a drained result
\* sets a resolved row only on a tick with gating active.
C4_DrainAlwaysApplyWhenActive ==
    [][ /\ (pc = "drain" /\ pc' = "capture") => ocr_result_queue = << >>
        /\ (IsDrainStep /\ ~gating_active) =>
              /\ last_name' = last_name /\ last_row' = last_row
              /\ last_used_secondary' = last_used_secondary
              /\ last_row' = NoneRow
        /\ (IsDrainStep /\ last_row' # last_row /\ last_row' # NoneRow) => gating_active ]_vars

\* A resolved, error-free, newest result was fetched in the drain of a tick
\* with gating inactive, and no row is resolved.
C4_Witness ==
    /\ pc = "drain" /\ ~gating_active
    /\ IsResolved(res) /\ ~HasError(res)
    /\ latest_result_id = res.task_id
    /\ last_row = NoneRow /\ last_name = NoneName

\* A drain step that applies the fetched result as the resolved row.
AppliesRow ==
    /\ IsDrainStep
    /\ accepted' # accepted
    /\ tooltip_active /\ ~HasError(res') /\ IsResolved(res')
    /\ last_row' = res'.row

\* C5: a result whose task was handed out for a panel that has since been lost
\* (miss threshold reached) or released (gating went inactive) is never applied
\* as the resolved row of a panel detected afterwards.
C5_SupersededResultNeverApplied ==
    [][ AppliesRow => res'.task_id > superseded_id ]_vars

\* The row of a task dispatched for a panel at one place is the resolved row of
\* a later panel at another place, after the first one was lost or released.
C5_Witness ==
    /\ pc = "drain" /\ tooltip_active
    /\ res.task_id >= 1 /\ res.task_id <= superseded_id
    /\ latest_result_id = res.task_id
    /\ last_row = res.row /\ last_row # NoneRow
    /\ last_panel_box # res.panel_box

\* A capture step that reads gating inactive right after a tick that read it
\* active.
IsReleaseStep == IsCaptureStep /\ gating_active /\ ~gating_active'

\* C6 as stated: whenever gating goes from active to inactive,
\* HELPER_SCREEN_RECT becomes None, latest_result_id returns to -1 and
\* TOOLTIP_IMAGE_CACHE is emptied.
C6_ReleaseResetsPipelineState ==
    [][ IsReleaseStep =>
          /\ HELPER_SCREEN_RECT' = NoneRect
          /\ latest_result_id' = INITIAL_RESULT_ID
          /\ TOOLTIP_IMAGE_CACHE' = {} ]_vars

\* C6 amended: whenever gating goes from active to inactive,
\* HELPER_SCREEN_RECT, LAST_SHOWN_ROW and LAST_SHOWN_PANEL_BOX become None in
\* that tick, but latest_result_id keeps its value (it never decreases in any
\* step) and TOOLTIP_IMAGE_CACHE keeps its contents unless the same tick
\* reloads a changed settings file.
C6_ReleaseResetsOverlayOnly ==
    [][ /\ latest_result_id' >= latest_result_id
        /\ IsReleaseStep =>
              /\ HELPER_SCREEN_RECT' = NoneRect
              /\ LAST_SHOWN_ROW' = NoneRow
              /\ LAST_SHOWN_PANEL_BOX' = NoneBox
              /\ latest_result_id' = latest_result_id
              /\ \A f \in Frames, dt \in TickAdvances :
                    CaptureTick(f, dt, "none", MaxTasks) =>
                        TOOLTIP_IMAGE_CACHE' = TOOLTIP_IMAGE_CACHE ]_vars

\* Gating has just gone inactive after a result was applied and rendered: the
\* rectangle is None while the result id and the image cache are kept.
C6_Witness ==
    /\ pc = "drain" /\ ~gating_active
    /\ HELPER_SCREEN_RECT = NoneRect
    /\ latest_result_id >= 1
    /\ TOOLTIP_IMAGE_CACHE # {}
    /\ hash_cache # NoneHash

\* ----------------------------------------------- a saturated task queue
\* The loop with the overlay always on, in front of a panel whose name region
\* changes on every tick allowed to dispatch, and a worker that may be
\* arbitrarily slow.
QueueTasks == 6
QueueFrames == {FrameA, FrameC}

InitQueue == Init /\ always_on

NextQueue ==
    \/ \E f \in QueueFrames : CaptureTick(f, OCR_MIN_INTERVAL, "none", QueueTasks)
    \/ DrainOne
    \/ FinishTick
    \/ WorkerStart
    \/ WorkerGet
    \/ \E raises \in BOOLEAN : WorkerProcess(raises)

SpecQueue == InitQueue /\ [][NextQueue]_vars

\* C7: the task queue never holds more than TASK_QUEUE_MAXSIZE (4) tasks; the
\* loop's next step never waits for the worker (the capture phase can run for
\* every frame whatever the task queue holds, the drain phase can always either
\* fetch a result or end the tick); a dispatch that finds the queue full
\* consumes its task id, leaves the queue as it was and moves on to the drain
\* phase of the same tick.
C7_BoundedQueueNeverBlocks ==
    /\ [](Len(ocr_task_queue) <= TASK_QUEUE_MAXSIZE)
    /\ []((pc = "capture" /\ next_task_id < QueueTasks) =>
            \A f \in QueueFrames : ENABLED CaptureTick(f, OCR_MIN_INTERVAL, "none", QueueTasks))
    /\ [](pc = "drain" => ENABLED (DrainOne \/ FinishTick))
    /\ [][ (IsCaptureStep /\ QueueFull(ocr_task_queue) /\ next_task_id' # next_task_id) =>
              /\ ocr_task_queue' = ocr_task_queue
              /\ enqueued' = enqueued
              /\ pc' = "drain" ]_vars

\* A tick went on to its drain phase after its task was dropped at a full queue.
C7_Witness ==
    /\ pc = "drain"
    /\ Len(ocr_task_queue) = TASK_QUEUE_MAXSIZE
    /\ next_task_id >= 1
    /\ \A i \in DOMAIN enqueued : enqueued[i] # next_task_id

\* ------------------------------------------------------- tasks and results
TaskIds(q) == [i \in DOMAIN q |-> q[i].task_id]
InFlight == IF worker_pc = "process" THEN << worker_task.task_id >> ELSE << >>
StrictlyIncreasing(s) == \A i, j \in DOMAIN s : i < j => s[i] < s[j]

\* C8: the ids of the tasks put into the task queue are, in order, the ids the
\* worker has dequeued followed by the ids still waiting, so each is dequeued
\* at most once and none twice; the dequeued ids are, in order, the ids of the
\* results produced followed by the one task the worker holds; the produced
\* ids are the ids the loop fetched followed by the ids waiting in the result
\* queue: one result per dequeued task, carrying its id, and no result without
\* a dequeued task.
C8_OneResultPerEnqueuedTask ==
    /\ StrictlyIncreasing(enqueued)
    /\ enqueued = dequeued \o TaskIds(ocr_task_queue)
    /\ dequeued = produced \o InFlight
    /\ produced = drained \o TaskIds(ocr_result_queue)

\* One task was dropped at a full queue; the five that were put went through
\* the queue, the worker and the result queue, and the loop fetched all five
\* results.
C8_Witness ==
    /\ Len(enqueued) = 5 /\ next_task_id > Len(enqueued)
    /\ dequeued = enqueued /\ produced = enqueued /\ drained = enqueued
    /\ worker_pc = "get"

\* C9: the step in which the worker finishes a task, with or without an
\* exception, puts one result carrying that task's id and returns the worker to
\* its get(), which is enabled whenever a task waits; a result with an error
\* field has name = None and row = None.
C9_WorkerSurvivesException ==
    /\ []((worker_pc = "get" /\ ocr_task_queue # << >>) => ENABLED WorkerGet)
    /\ [][ produced' # produced =>
             LET put == ocr_result_queue'[Len(ocr_result_queue')]
             IN  /\ Len(ocr_result_queue') = Len(ocr_result_queue) + 1
                 /\ put.task_id = worker_task.task_id
                 /\ put.error # "" => (put.name = NoneName /\ put.row = NoneRow)
                 /\ worker_pc' = "get" ]_vars

\* The result queue holds the error result of one task followed by the resolved
\* result of the task after it.
C9_Witness ==
    /\ Len(ocr_result_queue) = 2
    /\ ocr_result_queue[1].error # ""
    /\ ocr_result_queue[1].name = NoneName /\ ocr_result_queue[1].row = NoneRow
    /\ ocr_result_queue[2].error = "" /\ ocr_result_queue[2].row # NoneRow
    /\ ocr_result_queue[2].task_id = ocr_result_queue[1].task_id + 1

\* C10: the step that fetches a result with an error field leaves last_name,
\* last_row, last_used_secondary and the overlay's visibility as they were, and
\* the loop stays in its drain phase.
C10_ErrorResultAppliesNothing ==
    [][ (IsDrainStep /\ res'.error # "") =>
          /\ last_name' = last_name
          /\ last_row' = last_row
          /\ last_used_secondary' = last_used_secondary
          /\ TOOLTIP_VISIBLE' = TOOLTIP_VISIBLE
          /\ HELPER_SCREEN_RECT' = HELPER_SCREEN_RECT
          /\ pc' = "drain" ]_vars

\* The newest result fetched in this tick carries an error while a row
\* resolved earlier is still shown.
C10_Witness ==
    /\ pc = "drain" /\ tooltip_active
    /\ res.error # ""
    /\ latest_result_id = res.task_id
    /\ last_row # NoneRow /\ last_name # NoneName
    /\ TOOLTIP_VISIBLE

\* ------------------------------------------------------------ the OCR engine
\* The threads inside ocr_item_lines(): its only callers that run are the two
\* calls in ocr_db_worker, made while the worker handles a task; main_live and
\* the hotkey callbacks contain no call (ocr_item_name is never called).
OcrCallers_LoopToo(lpc, wpc) ==
    (IF wpc = "process" THEN {"ocr_db_worker"} ELSE {})
        \cup (IF lpc = "drain" THEN {"main_live"} ELSE {})
OcrCallers(lpc, wpc) == IF wpc = "process" THEN {"ocr_db_worker"} ELSE {}

Shutdown ==
    /\ pc \in {"capture", "drain"}
    /\ pc' = "stopped"
    /\ TOOLTIP_VISIBLE' = FALSE
    /\ HELPER_SCREEN_RECT' = HiddenRect(HELPER_SCREEN_RECT)
    /\ ocr_task_queue' = put_nowait(ocr_task_queue, NoneTask)
    /\ UNCHANGED << always_on, HOTKEY_HELD, gating_active, tooltip_active, panel_box,
                    last_name, last_row, last_panel_box, last_name_roi_hash,
                    last_used_secondary, missing_frames, next_task_id, latest_result_id,
                    res, ocr_age, hash_cache, ocr_result_queue, worker_vars,
                    LAST_SHOWN_ROW, LAST_SHOWN_PANEL_BOX, TOOLTIP_NEEDS_REFRESH,
                    TOOLTIP_IMAGE_CACHE, TOOLTIP_CACHE_KEY, USER_VERDICTS, history_vars, call_vars >>

ShutdownFrames == {FrameA, FrameB}

NextShutdown ==
    \/ \E f \in ShutdownFrames : CaptureTick(f, OCR_MIN_INTERVAL, "none", MaxTasks)
    \/ DrainOne
    \/ FinishTick
    \/ WorkerStart
    \/ WorkerGet
    \/ \E raises \in BOOLEAN : WorkerProcess(raises)
    \/ Shutdown

SpecShutdown == InitQueue /\ [][NextShutdown]_vars

\* C12: the step in which the worker takes the sentinel from the task queue
\* ends the worker and releases the engine (OCR_API = None) without counting
\* the sentinel as a task; once the worker has ended it stays ended, the engine
\* stays released, and nothing more is dequeued, processed or produced.
C12_SentinelStopsWorker ==
    /\ [][ (worker_pc = "get" /\ worker_pc' # "get"
              /\ ocr_task_queue # << >> /\ Head(ocr_task_queue) = NoneTask) =>
                /\ worker_pc' = "done"
                /\ OCR_API' = "None"
                /\ dequeued' = dequeued /\ produced' = produced ]_vars
    /\ [](worker_pc = "done" => (OCR_API = "None" /\ OcrCallers(pc, worker_pc) = {}))
    /\ [][ worker_pc = "done" =>
                /\ worker_pc' = "done"
                /\ ocr_task_queue' = ocr_task_queue
                /\ dequeued' = dequeued /\ produced' = produced
                /\ ocr_result_queue' = ocr_result_queue ]_vars

\* The worker has ended on the sentinel after producing the results of the
\* tasks put before it.
C12_Witness ==
    /\ worker_pc = "done" /\ OCR_API = "None"
    /\ pc = "stopped"
    /\ Len(produced) = 2 /\ produced = enqueued

\* ------------------------------------------------ an unchanging name region
\* Every frame with a panel shows the same name region up to capture noise, so
\* every tick that finds a panel computes the same hash; the panel may vanish
\* and the hotkey may be pressed and released at will.
HashTasks == 3
HashFrames == {NoPanelFrame, FrameA, FrameA2}

NextHash ==
    \/ \E f \in HashFrames, dt \in TickAdvances : CaptureTick(f, dt, "none", HashTasks)
    \/ DrainOne
    \/ FinishTick
    \/ WorkerStart
    \/ WorkerGet
    \/ \E raises \in BOOLEAN : WorkerProcess(raises)
    \/ HotkeyPress
    \/ HotkeyRelease

SpecHash == Init /\ [][NextHash]_vars

\* C13 as stated: while every tick that finds a panel computes the same hash,
\* the loop dispatches at most one OCR task.
C13_OneDispatchPerHash == next_task_id <= 1

\* C13 amended: while every tick that finds a panel computes the same hash, a
\* task is dispatched only when no hash is recorded, i.e. at most once before
\* the first and at most once after each clearing of the resolved state (miss
\* threshold reached, or gating released): the clearing forgets the recorded
\* hash, so the same name region is dispatched once more when a panel is found
\* again.
C13_OneDispatchPerHashPerPanel ==
    [][ next_task_id' # next_task_id =>
          /\ last_name_roi_hash = NoneHash
          /\ last_name_roi_hash' = hash_cache'
          /\ next_task_id = superseded_id
          /\ next_task_id' = next_task_id + 1 ]_vars

\* A tick found the panel with the interval elapsed and dispatched nothing,
\* because its frame hashes like the one already dispatched.
C13_Witness ==
    /\ pc = "drain" /\ panel_box # NoneBox
    /\ ocr_age = OCR_MIN_INTERVAL
    /\ next_task_id = 1 /\ superseded_id = 0
    /\ last_name_roi_hash = RoiGray(FrameA.roi_primary)
    /\ enqueued = << 1 >> /\ Len(ocr_task_queue) = 1
    /\ ocr_task_queue[1].roi_primary = FrameA.roi_primary

\* --------------------------------------------- the 100 ms cadence with jitter
\* Ticks start exactly DETECTION_INTERVAL apart (no tick overruns) and each
\* reads the clock at line 3673 either at once or MaxLate * 50 ms into the
\* tick, after a slower grab and panel detection. The name region changes
\* between FrameA and FrameC at will.
MaxLate == 1
IntervalTasks == 3
IntervalFrames == {FrameA, FrameC}
Lateness == 0 .. MaxLate

InitInterval ==
    /\ InitLoop
    /\ ocr_result_queue = << >>
    /\ always_on
    /\ clock = StartClock
    /\ NoCall

NextInterval ==
    \/ \E f \in IntervalFrames, late \in Lateness :
            CaptureTick(f, DETECTION_INTERVAL + late - clock.late, "none", IntervalTasks)
    \/ DrainOne
    \/ FinishTick
    \/ WorkerStart
    \/ WorkerGet
    \/ \E raises \in BOOLEAN : WorkerProcess(raises)

SpecInterval == InitInterval /\ [][NextInterval]_vars

CeilDiv(a, b) == (a + b - 1) \div b
\* Time between the clock read of the last dispatch attempt and the one of
\* this capture step, and the number of ticks between the two (up to MaxTicks + 1).
ElapsedAtRead == ocr_age + DETECTION_INTERVAL + clock'.late - clock.late
TicksSinceDispatch == clock.ticks + 1
IsDispatchStep == next_task_id' # next_task_id
HashChangedAtRead == IsCaptureStep /\ panel_box' # NoneBox /\ hash_cache' # last_name_roi_hash

IntervalRule ==
    /\ (IsDispatchStep /\ next_task_id >= 1) => ElapsedAtRead >= OCR_MIN_INTERVAL
    /\ (HashChangedAtRead /\ ElapsedAtRead < OCR_MIN_INTERVAL) =>
          /\ ~IsDispatchStep
          /\ last_name_roi_hash' = last_name_roi_hash
          /\ ocr_task_queue' = ocr_task_queue
    /\ (HashChangedAtRead /\ ElapsedAtRead >= OCR_MIN_INTERVAL) =>
          /\ IsDispatchStep
          /\ last_name_roi_hash' = hash_cache'

\* C14 as stated: two dispatch attempts are at least OCR_MIN_INTERVAL apart,
\* which at the 100 ms cadence is at least 4 ticks; a changed hash met before
\* the interval has elapsed is neither dispatched nor recorded, and is
\* dispatched by the tick that meets it once the interval has elapsed.
C14_FourTicksBetweenDispatches ==
    [][ /\ IntervalRule
        /\ (IsDispatchStep /\ next_task_id >= 1) =>
              TicksSinceDispatch >= CeilDiv(OCR_MIN_INTERVAL, DETECTION_INTERVAL) ]_vars

\* C14 amended: the clock reads of two dispatch attempts are at least
\* OCR_MIN_INTERVAL apart; in ticks that is at least
\* ceil((OCR_MIN_INTERVAL - jitter) / DETECTION_INTERVAL), i.e. 3 ticks and not
\* 4 when a tick may read the clock up to 50 ms later into its tick than
\* another; a changed hash met before the
\* interval has elapsed is neither dispatched nor recorded, and is dispatched
\* by the tick that meets it once the interval has elapsed.
C14_IntervalBetweenDispatches ==
    [][ /\ IntervalRule
        /\ (IsDispatchStep /\ next_task_id >= 1) =>
              TicksSinceDispatch >= CeilDiv(OCR_MIN_INTERVAL - MaxLate, DETECTION_INTERVAL) ]_vars

\* Two ticks after a dispatch the name region has changed, the interval has
\* not elapsed, and the new hash is neither dispatched nor recorded.
C14_Witness ==
    /\ pc = "drain" /\ panel_box # NoneBox
    /\ clock.ticks = 2
    /\ ocr_age < OCR_MIN_INTERVAL
    /\ next_task_id = 1
    /\ last_name_roi_hash # NoneHash /\ hash_cache # last_name_roi_hash

\* --------------------------------------------------- applying a result
\* A drain step whose result passed the id filter, the tooltip_active test and
\* the error test.
IsAcceptedDrainStep ==
    /\ IsDrainStep
    /\ accepted' # accepted
    /\ tooltip_active
    /\ res'.error = ""

\* C15: a drained, accepted result with a name and a row sets last_name,
\* last_row and last_used_secondary to the result's; one without a row sets
\* last_name and last_row to None, hides the overlay and sets LAST_SHOWN_ROW and
\* LAST_SHOWN_PANEL_BOX to None; both leave last_panel_box (set) and the
\* recorded hash as they were. The step that ends a tick with a resolved row
\* and an active tooltip leaves the overlay visible for that row at that panel.
C15_ResultSetsOrClearsRow ==
    [][ /\ (IsAcceptedDrainStep /\ res'.name # NoneName /\ res'.row # NoneRow) =>
              /\ last_name' = res'.name
              /\ last_row' = res'.row
              /\ last_used_secondary' = res'.secondary_used
        /\ (IsAcceptedDrainStep /\ res'.row = NoneRow) =>
              /\ last_name' = NoneName /\ last_row' = NoneRow
              /\ ~TOOLTIP_VISIBLE' /\ HELPER_SCREEN_RECT' = NoneRect
              /\ LAST_SHOWN_ROW' = NoneRow /\ LAST_SHOWN_PANEL_BOX' = NoneBox
        /\ IsAcceptedDrainStep =>
              /\ last_panel_box' = last_panel_box /\ last_panel_box # NoneBox
              /\ last_name_roi_hash' = last_name_roi_hash
        /\ (pc = "drain" /\ pc' = "capture" /\ tooltip_active /\ last_row # NoneRow) =>
              /\ TOOLTIP_VISIBLE'
              /\ LAST_SHOWN_ROW' = last_row
              /\ LAST_SHOWN_PANEL_BOX' = last_panel_box
              /\ HELPER_SCREEN_RECT' # NoneRect ]_vars

\* A result without a row was accepted for a panel whose earlier row had been
\* rendered: the row and the overlay are gone, the panel box is kept.
C15_Witness ==
    /\ pc = "drain" /\ tooltip_active
    /\ res.error = "" /\ res.row = NoneRow /\ res.task_id = latest_result_id
    /\ res.task_id >= 2
    /\ last_row = NoneRow /\ last_name = NoneName
    /\ last_panel_box # NoneBox
    /\ ~TOOLTIP_VISIBLE /\ LAST_SHOWN_ROW = NoneRow
    /\ TOOLTIP_IMAGE_CACHE # {}

\* ------------------------------------------------------ the name matcher
\* Names are sequences of one-character strings.
UpperLetters == << "A", "B", "C", "D", "E", "F", "G", "H", "I", "J", "K", "L", "M",
                   "N", "O", "P", "Q", "R", "S", "T", "U", "V", "W", "X", "Y", "Z" >>
LowerLetters == << "a", "b", "c", "d", "e", "f", "g", "h", "i", "j", "k", "l", "m",
                   "n", "o", "p", "q", "r", "s", "t", "u", "v", "w", "x", "y", "z" >>
Range(f) == {f[i] : i \in DOMAIN f}
Digits == {"0", "1", "2", "3", "4", "5", "6", "7", "8", "9"}
RomanLetters == {"I", "V", "X", "L", "C", "D", "M"}
IndexOf(seq, c) == CHOOSE i \in DOMAIN seq : seq[i] = c
\* str.upper() and str.lower() on one character
upper(c) == IF c \in Range(LowerLetters) THEN UpperLetters[IndexOf(LowerLetters, c)] ELSE c
lower_SwapCase(c) ==
    IF c \in Range(UpperLetters) THEN LowerLetters[IndexOf(UpperLetters, c)]
    ELSE IF c \in Range(LowerLetters) THEN UpperLetters[IndexOf(LowerLetters, c)] ELSE c
lower(c) == IF c \in Range(UpperLetters) THEN LowerLetters[IndexOf(UpperLetters, c)] ELSE c
\* \s and \w of the regular expressions
IsSpace(c) == c = " "
IsWordChar(c) == c \in Range(UpperLetters) \cup Range(LowerLetters) \cup Digits \cup {"_"}
MapSeq(s, Op(_)) == [i \in DOMAIN s |-> Op(s[i])]

\* str.strip()
RECURSIVE lstrip(_)
lstrip(s) == IF s # << >> /\ IsSpace(Head(s)) THEN lstrip(Tail(s)) ELSE s
RECURSIVE rstrip(_)
rstrip(s) == IF s # << >> /\ IsSpace(s[Len(s)]) THEN rstrip(SubSeq(s, 1, Len(s) - 1)) ELSE s
strip(s) == rstrip(lstrip(s))

\* re.search(r"(\b[IVXLCDM]+\b|\b\d+\b)$", s, re.IGNORECASE): the word
\* boundaries make the token the whole run of word characters that ends the
\* string, which must be all roman letters (in either case) or all digits.
RECURSIVE WordStart(_, _)
WordStart(s, i) == IF i >= 1 /\ IsWordChar(s[i]) THEN WordStart(s, i - 1) ELSE i + 1
TrailingWord(s) == SubSeq(s, WordStart(s, Len(s)), Len(s))
IsRomanToken(t) == t # << >> /\ \A i \in DOMAIN t : upper(t[i]) \in RomanLetters
IsDigitToken(t) == t # << >> /\ \A i \in DOMAIN t : t[i] \in Digits
TokenMatches(t) == IsRomanToken(t) \/ IsDigitToken(t)

\* token.upper().replace("|", "I").replace("L", "I")
CleanChar(c) == IF upper(c) \in {"|", "L"} THEN "I" ELSE upper(c)
TokenClean(t) == MapSeq(t, CleanChar)
\* roman_map, and the isdigit() branch; << >> stands for digit = None
TokenDigit(t) ==
    LET tc == TokenClean(t)
    IN  CASE tc = << "I" >> -> << "1" >>
          [] tc = << "I", "I" >> -> << "2" >>
          [] tc = << "I", "I", "I" >> -> << "3" >>
          [] tc = << "I", "V" >> -> << "4" >>
          [] OTHER -> IF IsDigitToken(tc) THEN tc ELSE << >>

\* s[: m.start(1)] + digit, when the token matched and has a digit
RewriteTrailingNumeral(s) ==
    LET t == TrailingWord(s)
    IN  IF TokenMatches(t) /\ TokenDigit(t) # << >>
        THEN SubSeq(s, 1, Len(s) - Len(t)) \o TokenDigit(t)
        ELSE s

\* core = re.sub(r"\s+", "", s); len(core) <= 3
NotSpace(c) == ~IsSpace(c)
CoreLen(s) == Len(SelectSeq(s, NotSpace))
ShortNameLen == 3
IsShortName_Exclusive(s) == CoreLen(s) < ShortNameLen
IsShortName(s) == CoreLen(s) <= ShortNameLen
\* the two translation tables
FoldShort(c) == IF c = "0" THEN "o" ELSE c
FoldLong(c) == IF c \in {"I", "|", "1"} THEN "l" ELSE IF c = "0" THEN "o" ELSE c
Translate(s) == IF IsShortName(s) THEN MapSeq(s, FoldShort) ELSE MapSeq(s, FoldLong)
\* re.sub(r"\s+", " ", s)
RECURSIVE CollapseSpaces(_)
CollapseSpaces(s) ==
    IF s = << >> THEN << >>
    ELSE IF IsSpace(Head(s)) THEN << " " >> \o CollapseSpaces(lstrip(s))
    ELSE << Head(s) >> \o CollapseSpaces(Tail(s))

normalize_name_for_match(name) ==
    CollapseSpaces(MapSeq(Translate(RewriteTrailingNumeral(strip(name))), lower))

\* ----------------------------------------------- calls of the pure functions
\* The helper process at rest; only fn, arg and ret vary.
InitIdle ==
    /\ InitLoop
    /\ ~always_on
    /\ ocr_result_queue = << >>
    /\ clock = NoClock

\* Every name of up to MaxNameLen characters over NameChars.
MaxNameLen == 5
NameChars == {"A", "a", "I", "l", "V", "1", "|", " "}
NamesOver(chars, n) == UNION {[1 .. k -> chars] : k \in 0 .. n}

\* normalize_name_for_match applied to each argument
CallNormalize ==
    /\ fn = "none"
    /\ fn' = "normalize_name_for_match"
    /\ ret' = [i \in DOMAIN arg |-> normalize_name_for_match(arg[i])]
    /\ UNCHANGED << arg, loop_vars, HOTKEY_HELD, ocr_task_queue, ocr_result_queue,
                    worker_vars, overlay_vars, history_vars >>

InitNormalize ==
    /\ InitIdle
    /\ fn = "none" /\ ret = << >>
    /\ arg \in {<< name >> : name \in NamesOver(NameChars, MaxNameLen)}

NextNormalize == CallNormalize

SpecNormalize == InitNormalize /\ [][NextNormalize]_vars

Normalized == fn = "normalize_name_for_match"
Contains(s, c) == \E i \in DOMAIN s : s[i] = c

MaxBaseLen == 3
BaseChars == {"M", "I"}
RomanNumeral(n) ==
    CASE n = 1 -> << "I" >>
      [] n = 2 -> << "I", "I" >>
      [] n = 3 -> << "I", "I", "I" >>
      [] n = 4 -> << "I", "V" >>
CaseVariants(s) ==
    {t \in [DOMAIN s -> {upper(s[i]) : i \in DOMAIN s} \cup {lower(s[i]) : i \in DOMAIN s}] :
        \A i \in DOMAIN s : upper(t[i]) = upper(s[i])}
InitNumeral ==
    /\ InitIdle
    /\ fn = "none" /\ ret = << >>
    /\ \E b \in NamesOver(BaseChars, MaxBaseLen) \ {<< >>}, n \in 1 .. 4 :
          \E b1 \in CaseVariants(b), b2 \in CaseVariants(b), r \in CaseVariants(RomanNumeral(n)) :
              arg = << b1 \o << " " >> \o r, b2 \o << " " >> \o TokenDigit(RomanNumeral(n)) >>

NextNumeral == CallNormalize

SpecNumeral == InitNumeral /\ [][NextNumeral]_vars

\* C17: the name 'B <roman(n)>' and the name 'B <n>', n in 1..4, in any letter
\* case of the base and of the numeral, normalize to the same key.
C17_NumeralFormsShareKey ==
    Normalized => ret[1] = ret[2]

\* 'Mmi II' and 'MMI 2' were normalized to the different keys 'mmi 2' and
\* 'mml 2'.
C17_Witness ==
    /\ Normalized
    /\ arg = << << "M", "m", "i", " ", "I", "I" >>, << "M", "M", "I", " ", "2" >> >>
    /\ ret = << << "m", "m", "i", " ", "2" >>, << "m", "m", "l", " ", "2" >> >>

\* --------------------------------------------------------------- short names
\* Every name of up to MaxShortLen characters over the letters of "OIL" in both
\* cases, the characters OCR confuses with them, and the space.
MaxShortLen == 4
ShortChars == {"O", "o", "0", "I", "i", "L", "l", "1", "|", " "}

InitShort ==
    /\ InitIdle
    /\ fn = "none" /\ ret = << >>
    /\ arg \in {<< name >> : name \in NamesOver(ShortChars, MaxShortLen)}

NextShort == CallNormalize

SpecShort == InitShort /\ [][NextShort]_vars

Count(s, c) == Cardinality({i \in DOMAIN s : s[i] = c})
\* the '0' -> 'o' fold followed by lower-casing, on one character
ZeroFoldLower(c) == IF c = "0" THEN "o" ELSE lower(c)
ShortInput == CoreLen(arg[1]) <= 3

\* C18 as stated: a name of at most 3 non-space characters gets only the
\* '0' -> 'o' fold and lower-casing (around the whitespace clean-up).
C18_ShortNameOnlyZeroFold ==
    (Normalized /\ ShortInput) =>
        ret[1] = CollapseSpaces(MapSeq(strip(arg[1]), ZeroFoldLower))

\* C18 amended: a name of at most 3 non-space characters first has its
\* trailing roman numeral or digit rewritten, and the rest gets only the
\* '0' -> 'o' fold and lower-casing: no 'I', '|' or '1' becomes an 'l', 'OIL'
\* and 'Oil' become 'oil', and 'Ill' is read as the numeral III and becomes '3'.
C18_ShortNameZeroFoldAfterNumeral ==
    (Normalized /\ ShortInput) =>
        /\ ret[1] = CollapseSpaces(MapSeq(RewriteTrailingNumeral(strip(arg[1])), ZeroFoldLower))
        /\ Count(ret[1], "l") <= Count(arg[1], "l") + Count(arg[1], "L")
        /\ arg[1] \in {<< "O", "I", "L" >>, << "O", "i", "l" >>} => ret[1] = << "o", "i", "l" >>
        /\ arg[1] = << "I", "l", "l" >> => ret[1] = << "3" >>

\* 'OIL' was normalized to 'oil'.
C18_Witness ==
    /\ Normalized
    /\ arg[1] = << "O", "I", "L" >>
    /\ ret[1] = << "o", "i", "l" >>

\* ------------------------------------------------------------ the name lookup
\* Code-point order of the characters of a name (comparison of str values).
CodeOrder ==
    << " ", "0", "1", "2", "3", "4", "5", "6", "7", "8", "9" >> \o UpperLetters \o
    << "_" >> \o LowerLetters \o << "|" >>
ord(c) == IndexOf(CodeOrder, c)
RECURSIVE StrLess(_, _)
StrLess(x, y) ==
    IF y = << >> THEN FALSE
    ELSE IF x = << >> THEN TRUE
    ELSE IF Head(x) = Head(y) THEN StrLess(Tail(x), Tail(y))
    ELSE ord(Head(x)) < ord(Head(y))
SetMax(S) == CHOOSE x \in S : \A y \in S : y <= x
SetMin(S) == CHOOSE x \in S : \A y \in S : x <= y

\* build_item_lookup over the item names of a database (a row is its index):
\* keys in insertion order, and for each key the last row that has it.
KeyOfRow(names, i) == normalize_name_for_match(strip(names[i]))
NamedRows(names) == {i \in DOMAIN names : strip(names[i]) # << >>}
build_item_lookup(names) ==
    LET named == NamedRows(names)
        IsFirst(i) == i \in named /\ \A j \in named : KeyOfRow(names, j) = KeyOfRow(names, i) => i <= j
        firsts == SelectSeq([i \in DOMAIN names |-> i], IsFirst)
    IN  [keys |-> [n \in DOMAIN firsts |-> KeyOfRow(names, firsts[n])],
         row  |-> [k \in {KeyOfRow(names, i) : i \in named} |->
                      SetMax({i \in named : KeyOfRow(names, i) = k})]]

\* str.split() and the substring test 't in k'
RECURSIVE WordLen(_)
WordLen(s) == IF s = << >> \/ IsSpace(Head(s)) THEN 0 ELSE 1 + WordLen(Tail(s))
RECURSIVE split(_)
split(s) ==
    LET t == lstrip(s)
    IN  IF t = << >> THEN << >>
        ELSE << SubSeq(t, 1, WordLen(t)) >> \o split(SubSeq(t, WordLen(t) + 1, Len(t)))
In(t, k) == \E i \in 0 .. (Len(k) - Len(t)) : SubSeq(k, i + 1, i + Len(t)) = t

\* difflib.SequenceMatcher(None, a, b) without junk: the longest matching
\* block (earliest in a, then earliest in b), the blocks left and right of it,
\* and ratio() = 2 * matches / (len(a) + len(b)), kept as a fraction.
RECURSIVE CommonPrefixLen(_, _)
CommonPrefixLen(a, b) ==
    IF a = << >> \/ b = << >> THEN 0
    ELSE IF Head(a) # Head(b) THEN 0
    ELSE 1 + CommonPrefixLen(Tail(a), Tail(b))
BlockLen(a, b, i, j) == CommonPrefixLen(SubSeq(a, i, Len(a)), SubSeq(b, j, Len(b)))
find_longest_match(a, b) ==
    LET size == SetMax({0} \cup {BlockLen(a, b, i, j) : i \in DOMAIN a, j \in DOMAIN b})
        besti == SetMin({i \in DOMAIN a : \E j \in DOMAIN b : BlockLen(a, b, i, j) = size})
        bestj == SetMin({j \in DOMAIN b : BlockLen(a, b, besti, j) = size})
    IN  IF size = 0 THEN [i |-> 1, j |-> 1, size |-> 0]
        ELSE [i |-> besti, j |-> bestj, size |-> size]
RECURSIVE MatchCount(_, _)
MatchCount(a, b) ==
    LET m == find_longest_match(a, b)
    IN  IF m.size = 0 THEN 0
        ELSE m.size
             + MatchCount(SubSeq(a, 1, m.i - 1), SubSeq(b, 1, m.j - 1))
             + MatchCount(SubSeq(a, m.i + m.size, Len(a)), SubSeq(b, m.j + m.size, Len(b)))
ratio(a, b) ==
    IF Len(a) + Len(b) = 0 THEN [num |-> 1, den |-> 1]
    ELSE [num |-> 2 * MatchCount(a, b), den |-> Len(a) + Len(b)]
RatioLess(r, q) == r.num * q.den < q.num * r.den
\* ratio >= pct / 100
RatioAtLeast(r, pct) == r.num * 100 >= pct * r.den

\* max(candidates, key=ratio against norm): the first candidate of the best ratio
BestKey(norm, candidates) ==
    candidates[SetMin({i \in DOMAIN candidates :
        \A j \in DOMAIN candidates :
            ~RatioLess(ratio(norm, candidates[i]), ratio(norm, candidates[j]))})]

\* difflib.get_close_matches(word, keys, n=1, cutoff): the keys whose ratio
\* against the word reaches the cutoff, the largest (ratio, key) first.
get_close_matches_Any(word, keys, pct) ==
    LET Below(o, k) == \/ RatioLess(ratio(o, word), ratio(k, word))
                       \/ /\ ~RatioLess(ratio(k, word), ratio(o, word))
                          /\ StrLess(o, k)
    IN  IF keys = << >> THEN << >>
        ELSE << CHOOSE k \in Range(keys) : \A o \in Range(keys) \ {k} : Below(o, k) >>
get_close_matches(word, keys, pct) ==
    LET scored == {k \in Range(keys) : RatioAtLeast(ratio(k, word), pct)}
        Below(o, k) == \/ RatioLess(ratio(o, word), ratio(k, word))
                       \/ /\ ~RatioLess(ratio(k, word), ratio(o, word))
                          /\ StrLess(o, k)
    IN  IF scored = {} THEN << >>
        ELSE << CHOOSE k \in scored : \A o \in scored \ {k} : Below(o, k) >>

MinTokenLen == 3
TokenCutoff == 60
PartialCutoff == 70
CloseCutoff == 70

ExactHit_Never(norm, lookup) == FALSE
ExactHit(norm, lookup) == norm \in DOMAIN lookup.row

\* find_item_row_by_name(name) against a lookup; 'via' names the strategy
\* that returned.
find_item_row(name, lookup) ==
    LET norm == normalize_name_for_match(name)
        keys == lookup.keys
        IsToken(t) == Len(t) >= MinTokenLen
        tokens == SelectSeq(split(norm), IsToken)
        HasAllTokens(k) == \A n \in DOMAIN tokens : In(tokens[n], k)
        strict_candidates == SelectSeq(keys, HasAllTokens)
        IsPartial(k) == In(norm, k) \/ In(k, norm)
        partial_candidates == SelectSeq(keys, IsPartial)
        best == get_close_matches(norm, keys, CloseCutoff)
    IN  IF name = << >> \/ keys = << >> THEN [row |-> NoneRow, via |-> "none"]
        ELSE IF ExactHit(norm, lookup) THEN [row |-> lookup.row[norm], via |-> "exact"]
        ELSE IF /\ tokens # << >>
                /\ strict_candidates # << >>
                /\ RatioAtLeast(ratio(norm, BestKey(norm, strict_candidates)), TokenCutoff)
             THEN [row |-> lookup.row[BestKey(norm, strict_candidates)], via |-> "token"]
        ELSE IF /\ partial_candidates # << >>
                /\ RatioAtLeast(ratio(norm, BestKey(norm, partial_candidates)), PartialCutoff)
             THEN [row |-> lookup.row[BestKey(norm, partial_candidates)], via |-> "partial"]
        ELSE IF best # << >> THEN [row |-> lookup.row[best[1]], via |-> "close"]
        ELSE [row |-> NoneRow, via |-> "none"]

\* The databases a query is resolved against: one with two rows of the same
\* key, one whose keys contain the shorter queries, an empty one, and one with
\* a key much longer than the queries it contains.
ItemDatabases ==
    << << << "O", "i", "l" >>, << "O", "i", "l", " ", "1" >>, << "O", "I", "L" >>,
          << " " >>, << "L", "o", "o", "l" >> >>,
       << << "O", "i", "l", " ", "1" >>, << "O", "i", "l", " ", "2" >> >>,
       << >>,
       << << "O", "O", "i", "l", " ", "L", "o", "o", "l", " ", "L", "L" >>,
          << "O", "i", "l" >> >> >>
ITEM_LOOKUP == [d \in DOMAIN ItemDatabases |-> build_item_lookup(ItemDatabases[d])]

MaxQueryLen == 4
QueryChars == {"O", "I", "i", "L", "l", "1", " "}

\* find_item_row_by_name(arg[1]) with the lookup of database arg[2]
CallFind ==
    /\ fn = "none"
    /\ fn' = "find_item_row_by_name"
    /\ ret' = << find_item_row(arg[1], ITEM_LOOKUP[arg[2]]) >>
    /\ UNCHANGED << arg, loop_vars, HOTKEY_HELD, ocr_task_queue, ocr_result_queue,
                    worker_vars, overlay_vars, history_vars >>

InitFind ==
    /\ InitIdle
    /\ fn = "none" /\ ret = << >>
    /\ arg \in {<< name, d >> : name \in NamesOver(QueryChars, MaxQueryLen),
                                d \in DOMAIN ItemDatabases}

NextFind == CallFind

SpecFind == InitFind /\ [][NextFind]_vars

Found == fn = "find_item_row_by_name"
\* the rows of database d whose name normalizes to the key of the query
RowsOfKey(name, d) ==
    {i \in DOMAIN ItemDatabases[d] :
        /\ strip(ItemDatabases[d][i]) # << >>
        /\ normalize_name_for_match(ItemDatabases[d][i]) = normalize_name_for_match(name)}

\* C19: when the normalized query is a key of the lookup, the call returns
\* that key's row (the last database row of that key) by the exact lookup, and
\* a fuzzy strategy returns only when no row has the key of the query.
C19_ExactKeyWins ==
    Found =>
        /\ (arg[1] # << >> /\ RowsOfKey(arg[1], arg[2]) # {}) =>
              /\ ret[1].via = "exact"
              /\ ret[1].row \in RowsOfKey(arg[1], arg[2])
              /\ \A i \in RowsOfKey(arg[1], arg[2]) : i <= ret[1].row
        /\ ret[1].via \in {"token", "partial", "close"} => RowsOfKey(arg[1], arg[2]) = {}

\* The query 'Oil' was resolved by its exact key to the row 'OIL', the last of
\* the two rows of that key, in a database with the other keys 'oil l' and 'lool'.
C19_Witness ==
    /\ Found
    /\ arg = << << "O", "i", "l" >>, 1 >>
    /\ ret[1] = [row |-> 3, via |-> "exact"]

\* ------------------------------------------------------ the fuzzy strategies
\* The query of a lookup call after normalization, the keys of its database,
\* and the keys that map to the returned row.
QueryNorm == normalize_name_for_match(arg[1])
LookupKeys == Range(ITEM_LOOKUP[arg[2]].keys)
ReturnedKeys == {k \in LookupKeys : ITEM_LOOKUP[arg[2]].row[k] = ret[1].row}
\* the candidates of the token and of the containment strategy for the query q
TokensOf(q) == {t \in Range(split(q)) : Len(t) >= 3}
TokenCandidates(q) ==
    IF TokensOf(q) = {} THEN {}
    ELSE {k \in LookupKeys : \A t \in TokensOf(q) : In(t, k)}
PartialCandidates(q) == {k \in LookupKeys : In(q, k) \/ In(k, q)}
\* the ratio r reaches pct percent; the ratio r is no less than the ratio s
Reaches(r, pct) == r.num * 100 >= pct * r.den
NoLess(r, s) == s.num * r.den <= r.num * s.den
\* some candidate reaches pct percent under the similarity sim (a function of
\* the keys); the key k is a most similar candidate
Accepts(cands, sim, pct) == \E k \in cands : Reaches(sim[k], pct)
MostSimilar(k, cands, sim) == \A j \in cands : NoLess(sim[k], sim[j])
FuzzyCall == Found /\ arg[1] # << >> /\ LookupKeys # {} /\ QueryNorm \notin LookupKeys

\* C28: when the normalized query is not an exact key, the token strategy
\* returns iff some key containing every query token of length >= 3 has ratio
\* >= 0.60, and then a most similar such key's row; otherwise the containment
\* strategy returns iff some key containing the query or contained in it has
\* ratio >= 0.70, and then a most similar such key's row; otherwise the global
\* strategy returns iff some key has similarity >= 0.70, and then a most
\* similar key's row; None is returned iff no strategy accepts, and always for
\* an empty name or an empty database.
C28_FuzzyStrategyOrder ==
    /\ (Found /\ (arg[1] = << >> \/ LookupKeys = {})) => ret[1].row = NoneRow
    /\ FuzzyCall =>
          LET q == QueryNorm
              sim == [k \in LookupKeys |-> ratio(q, k)]
              close_sim == [k \in LookupKeys |-> ratio(k, q)]
              token == TokenCandidates(q)
              partial == PartialCandidates(q)
              token_accepts == Accepts(token, sim, 60)
              partial_accepts == Accepts(partial, sim, 70)
              close_accepts == Accepts(LookupKeys, close_sim, 70)
          IN  /\ (ret[1].via = "token") <=> token_accepts
              /\ (ret[1].via = "partial") <=> (~token_accepts /\ partial_accepts)
              /\ (ret[1].via = "close") <=>
                    (~token_accepts /\ ~partial_accepts /\ close_accepts)
              /\ (ret[1].row = NoneRow) <=>
                    (~token_accepts /\ ~partial_accepts /\ ~close_accepts)
              /\ ret[1].via = "token" =>
                    \E k \in ReturnedKeys \cap token : MostSimilar(k, token, sim)
              /\ ret[1].via = "partial" =>
                    \E k \in ReturnedKeys \cap partial : MostSimilar(k, partial, sim)
              /\ ret[1].via = "close" =>
                    \E k \in ReturnedKeys : MostSimilar(k, LookupKeys, close_sim)

\* The query 'OOil' against the keys 'ooil lool 2' and 'oil': the first key
\* contains the token 'ooil' but with ratio 8/15 < 0.60, so the token strategy
\* falls through; 'oil' is contained in the query with ratio 6/7 >= 0.70 and
\* its row is returned by the containment strategy.
C28_Witness ==
    /\ FuzzyCall
    /\ arg = << << "O", "O", "i", "l" >>, 4 >>
    /\ TokenCandidates(QueryNorm) # {}
    /\ \A k \in TokenCandidates(QueryNorm) : ~Reaches(ratio(QueryNorm, k), 60)
    /\ ret[1] = [row |-> 2, via |-> "partial"]

\* ------------------------------------------------------ the effective verdict
VERDICT_CYCLE == << "KEEP", "RECYCLE", "SELL" >>
\* Database rows as the CSV gives them: names with or without surrounding
\* whitespace, verdicts in any letter case or empty.
VerdictRows ==
    [Name : {"Oil", "Oil ", " ", "Vulcano 1"}, Verdict : {"KEEP", "keep", "Sell", ""}]
\* The override stores cycle_verdict_for_current_item can leave behind:
\* verdicts of the cycle under the names of rows.
OverrideKeys == {"Oil", "Oil ", " "}
OverrideStores == UNION {[K -> Range(VERDICT_CYCLE)] : K \in SUBSET OverrideKeys}

\* get_effective_verdict(arg[1], None) with USER_VERDICTS = arg[2]
CallVerdict ==
    /\ fn = "none"
    /\ fn' = "get_effective_verdict"
    /\ ret' = << get_effective_verdict(arg[1], arg[2]) >>
    /\ UNCHANGED << arg, loop_vars, HOTKEY_HELD, ocr_task_queue, ocr_result_queue,
                    worker_vars, overlay_vars, history_vars >>

InitVerdict ==
    /\ InitIdle
    /\ fn = "none" /\ ret = << >>
    /\ arg \in {<< row, store >> : row \in VerdictRows, store \in OverrideStores}

NextVerdict == CallVerdict

SpecVerdict == InitVerdict /\ [][NextVerdict]_vars

VerdictReturned == fn = "get_effective_verdict"

\* C20: the call returns the override stored for the row's name if there is
\* one, else the row's verdict in upper case, else 'UNKNOWN'.
C20_OverrideShadowsVerdict ==
    VerdictReturned =>
        ret[1] = IF arg[1].Name \in DOMAIN arg[2] THEN arg[2][arg[1].Name]
                 ELSE IF arg[1].Verdict # "" THEN str_upper(arg[1].Verdict)
                 ELSE "UNKNOWN"

\* For the row 'Oil ' with verdict KEEP and the override SELL stored under
\* 'Oil ', the call returned KEEP.
C20_Witness ==
    /\ VerdictReturned
    /\ arg = << [Name |-> "Oil ", Verdict |-> "KEEP"], [k \in {"Oil "} |-> "SELL"] >>
    /\ ret = << "KEEP" >>

\* ------------------------------------------------------------ verdict cycling
MaxCycles == 4
DictSet(d, k, v) == [x \in DOMAIN d \cup {k} |-> IF x = k THEN v ELSE d[x]]

\* VERDICT_CYCLE[(VERDICT_CYCLE.index(current) + 1) % len(VERDICT_CYCLE)]
Successor_Back(current) ==
    VERDICT_CYCLE[((IndexOf(VERDICT_CYCLE, current) - 1 + Len(VERDICT_CYCLE) - 1)
                      % Len(VERDICT_CYCLE)) + 1]
Successor(current) ==
    VERDICT_CYCLE[(IndexOf(VERDICT_CYCLE, current) % Len(VERDICT_CYCLE)) + 1]

\* current = USER_VERDICTS.get(name) or base or VERDICT_CYCLE[0], replaced by
\* VERDICT_CYCLE[0] when it is not a verdict of the cycle
CurrentVerdict(row, overrides) ==
    LET base == str_upper(row.Verdict)
        override == DictGet(overrides, row.Name, "")
        current == IF override # "" THEN override
                   ELSE IF base # "" THEN base ELSE VERDICT_CYCLE[1]
    IN  IF current \in Range(VERDICT_CYCLE) THEN current ELSE VERDICT_CYCLE[1]

\* the early returns of cycle_verdict_for_current_item; the shown row is a
\* sequence of no row (None) or one row
CycleWrites_AnyName(shown) == shown # << >>
CycleWrites(shown) == shown # << >> /\ shown[1].Name # ""

\* Rows the overlay can show when the cycle hotkey is pressed, as the CSV
\* gives them, and what the override file can hold when it is loaded.
CycleRows ==
    [Name : {"Oil", "Oil ", ""}, Verdict : {"KEEP", "keep", "Sell", "", "RECYCLE", "TRASH"}]
FileStores == UNION {[K -> {"keep", "RECYCLE", "Sell"}] : K \in SUBSET OverrideKeys}

\* load_user_verdicts(): the values of the file in upper case
LoadUserVerdicts ==
    /\ fn = "none"
    /\ fn' = "load_user_verdicts"
    /\ \E data \in FileStores :
          USER_VERDICTS' = [k \in DOMAIN data |-> str_upper(data[k])]
    /\ UNCHANGED << arg, ret, loop_vars, HOTKEY_HELD, ocr_task_queue, ocr_result_queue,
                    worker_vars, TOOLTIP_VISIBLE, HELPER_SCREEN_RECT, LAST_SHOWN_ROW,
                    LAST_SHOWN_PANEL_BOX, TOOLTIP_NEEDS_REFRESH, TOOLTIP_IMAGE_CACHE, TOOLTIP_CACHE_KEY,
                    history_vars >>

\* cycle_verdict_for_current_item(+1) with LAST_SHOWN_ROW = arg; ret keeps
\* the store each writing call found and the verdict it wrote.
CallCycle ==
    /\ fn \in {"load_user_verdicts", "cycle_verdict_for_current_item"}
    /\ Len(ret) < MaxCycles
    /\ fn' = "cycle_verdict_for_current_item"
    /\ IF CycleWrites(arg)
       THEN LET new_verdict == Successor(CurrentVerdict(arg[1], USER_VERDICTS))
            IN  /\ USER_VERDICTS' = DictSet(USER_VERDICTS, arg[1].Name, new_verdict)
                /\ TOOLTIP_NEEDS_REFRESH' = TRUE
                /\ ret' = Append(ret, [before |-> USER_VERDICTS, written |-> new_verdict])
       ELSE UNCHANGED << USER_VERDICTS, TOOLTIP_NEEDS_REFRESH, ret >>
    /\ UNCHANGED << arg, loop_vars, HOTKEY_HELD, ocr_task_queue, ocr_result_queue,
                    worker_vars, TOOLTIP_VISIBLE, HELPER_SCREEN_RECT, LAST_SHOWN_ROW,
                    LAST_SHOWN_PANEL_BOX, TOOLTIP_IMAGE_CACHE, TOOLTIP_CACHE_KEY, history_vars >>

InitCycle ==
    /\ InitIdle
    /\ fn = "none" /\ ret = << >>
    /\ arg \in {<< shown >> : shown \in CycleRows} \cup {<< >>}

NextCycle == LoadUserVerdicts \/ CallCycle

SpecCycle == InitCycle /\ [][NextCycle]_vars

Cycled == fn = "cycle_verdict_for_current_item"
\* the verdict a call found for the row: its override, else its database
\* verdict in upper case, else KEEP
VerdictFound(row, before) ==
    IF row.Name \in DOMAIN before THEN before[row.Name]
    ELSE IF row.Verdict \in {"KEEP", "keep"} THEN "KEEP"
    ELSE IF row.Verdict = "RECYCLE" THEN "RECYCLE"
    ELSE IF row.Verdict \in {"SELL", "Sell"} THEN "SELL"
    ELSE IF row.Verdict = "" THEN "KEEP"
    ELSE "none"

\* C21: every cycle action on the shown item writes a verdict of the cycle,
\* the successor in KEEP -> RECYCLE -> SELL -> KEEP of the verdict the item had
\* (its override, else its database verdict, else KEEP), the store holds it
\* under the item's name, and the fourth write repeats the first.
C21_CycleFollowsFixedOrder ==
    \A i \in DOMAIN ret :
        /\ ret[i].written \in {"KEEP", "RECYCLE", "SELL"}
        /\ VerdictFound(arg[1], ret[i].before) = "KEEP" => ret[i].written = "RECYCLE"
        /\ VerdictFound(arg[1], ret[i].before) = "RECYCLE" => ret[i].written = "SELL"
        /\ VerdictFound(arg[1], ret[i].before) = "SELL" => ret[i].written = "KEEP"
        /\ i = Len(ret) => USER_VERDICTS[arg[1].Name] = ret[i].written
        /\ i + 3 \in DOMAIN ret => ret[i + 3].written = ret[i].written

\* A row without database verdict and without override was cycled four times:
\* RECYCLE, SELL, KEEP and RECYCLE again were written.
C21_Witness ==
    /\ Cycled
    /\ arg = << [Name |-> "Oil", Verdict |-> ""] >>
    /\ Len(ret) = 4
    /\ ret[1].before = << >>
    /\ << ret[1].written, ret[2].written, ret[3].written, ret[4].written >> =
          << "RECYCLE", "SELL", "KEEP", "RECYCLE" >>

\* C29: a cycle action on a shown row with a name writes the store's entry of
\* that name, keeps every other entry and sets the refresh flag; with no shown
\* row or an empty name it leaves the store and the refresh flag as they were.
C29_CycleWritesOneEntry ==
    [][ (fn' = "cycle_verdict_for_current_item") =>
           IF arg # << >> /\ arg[1].Name # ""
           THEN /\ DOMAIN USER_VERDICTS' = DOMAIN USER_VERDICTS \cup {arg[1].Name}
                /\ \A k \in DOMAIN USER_VERDICTS \ {arg[1].Name} :
                      USER_VERDICTS'[k] = USER_VERDICTS[k]
                /\ USER_VERDICTS'[arg[1].Name] \in {"KEEP", "RECYCLE", "SELL"}
                /\ arg[1].Name \in DOMAIN USER_VERDICTS =>
                      USER_VERDICTS'[arg[1].Name] # USER_VERDICTS[arg[1].Name]
                /\ TOOLTIP_NEEDS_REFRESH'
           ELSE /\ USER_VERDICTS' = USER_VERDICTS
                /\ TOOLTIP_NEEDS_REFRESH' = TOOLTIP_NEEDS_REFRESH ]_vars

\* The row 'Oil' was cycled once in a store that held overrides for 'Oil ' and
\* ' ': its entry appeared and the two others are as they were.
C29_Witness ==
    /\ Cycled
    /\ arg = << [Name |-> "Oil", Verdict |-> "KEEP"] >>
    /\ Len(ret) = 1
    /\ DOMAIN ret[1].before = {"Oil ", " "}
    /\ DOMAIN USER_VERDICTS = {"Oil", "Oil ", " "}
    /\ USER_VERDICTS["Oil"] = "RECYCLE"
    /\ USER_VERDICTS["Oil "] = ret[1].before["Oil "]
    /\ USER_VERDICTS[" "] = ret[1].before[" "]
    /\ TOOLTIP_NEEDS_REFRESH

\* --------------------------------------------------------- overlay placement
REF_W == 1920
REF_H == 1080
HELPER_GAP_X_REF == 4
HELPER_GAP_Y_REF == 46
PLACEMENT_MARGIN == 10
MIN_GAP == 4
Max(a, b) == IF a > b THEN a ELSE b

\* int(round(a / b)) for a >= 0, b > 0: Python rounds a half to the even side
RoundDiv(a, b) ==
    LET q == a \div b
        twice == 2 * (a % b)
    IN  IF twice < b THEN q
        ELSE IF twice > b THEN q + 1
        ELSE IF q % 2 = 0 THEN q ELSE q + 1

\* get_helper_gaps(): << gap_x, gap_y >> for a screen
get_helper_gaps(screen) ==
    LET w == IF screen.w # 0 THEN screen.w ELSE REF_W
        h == IF screen.h # 0 THEN screen.h ELSE REF_H
    IN  << Max(RoundDiv(HELPER_GAP_X_REF * w, REF_W), 1),
           Max(RoundDiv(HELPER_GAP_Y_REF * h, REF_H), 1) >>

\* side_gap = max(gap_x, min_gap)
SideGap_Scaled(screen) == get_helper_gaps(screen)[1]
SideGap(screen) == Max(get_helper_gaps(screen)[1], MIN_GAP)

\* right_fits = x_right + w <= SCREEN_W - margin
RightFits_Strict(box, w, screen) == box[3] + SideGap(screen) + w < screen.w - PLACEMENT_MARGIN
RightFits(box, w, screen) == box[3] + SideGap(screen) + w <= screen.w - PLACEMENT_MARGIN

horizontal_distance(mx, tx, tw) ==
    IF mx < tx THEN tx - mx
    ELSE IF mx > tx + tw THEN mx - (tx + tw)
    ELSE 0

\* the pointer in monitor-local coordinates; << >> when its position is unknown
LocalMouse(mouse, screen) ==
    IF mouse = << >> THEN << >> ELSE << mouse[1] - screen.left, mouse[2] - screen.top >>

\* the overlay's size: the single-column image when it fits on the right,
\* else the compact one
OverlaySize(box, test, compact, screen) ==
    IF RightFits(box, test[1], screen) THEN test ELSE compact

\* y before the pointer is considered
AnchorY(box, h, used_secondary, screen) ==
    LET y0 == IF used_secondary THEN box[2] ELSE box[2] + get_helper_gaps(screen)[2]
        y1 == IF y0 < PLACEMENT_MARGIN THEN PLACEMENT_MARGIN ELSE y0
        y2 == IF y1 + h > screen.h - PLACEMENT_MARGIN THEN screen.h - h - PLACEMENT_MARGIN ELSE y1
        y3 == IF y2 < PLACEMENT_MARGIN THEN PLACEMENT_MARGIN ELSE y2
    IN  Max(0, Min(screen.h - h, y3))

\* the side chosen and its x before clamping
SideChoice(box, w, m, screen) ==
    LET x_right == box[3] + SideGap(screen)
        x_left == box[1] - SideGap(screen) - w
        panel_center_x == box[1] + ((box[3] - box[1]) \div 2)
    IN  IF RightFits(box, w, screen)
        THEN IF m # << >>
             THEN IF horizontal_distance(m[1], x_right, w) >= horizontal_distance(m[1], x_left, w)
                  THEN [via |-> "right", x |-> x_right]
                  ELSE [via |-> "left", x |-> x_left]
             ELSE [via |-> "right", x |-> x_right]
        ELSE IF m # << >> /\ panel_center_x < m[1]
             THEN [via |-> "left", x |-> x_left]
             ELSE IF m # << >>
                  THEN [via |-> "margin", x |-> PLACEMENT_MARGIN]
                  ELSE [via |-> "center", x |-> panel_center_x - (w \div 2)]

\* clamp_to_screen and try_place of the above/below path; << >> is None
clamp_to_screen_Unclamped(cx, cy, w, h, screen) == << cx, cy >>
clamp_to_screen(cx, cy, w, h, screen) ==
    << Max(PLACEMENT_MARGIN, Min(screen.w - PLACEMENT_MARGIN - w, cx)),
       Max(PLACEMENT_MARGIN, Min(screen.h - PLACEMENT_MARGIN - h, cy)) >>
Covers(c, w, h, m) == c[1] <= m[1] /\ m[1] <= c[1] + w /\ c[2] <= m[2] /\ m[2] <= c[2] + h
try_place(cx, cy, w, h, m, screen) ==
    LET c == clamp_to_screen(cx, cy, w, h, screen)
    IN  IF Covers(c, w, h, m) THEN << >> ELSE << c[1] - 1, c[2] >>

\* show_helper_tooltip's geometry: the overlay's position and size, and the
\* branch that chose it
PlaceOverlay(box, test, compact, mouse, used_secondary, screen) ==
    LET size == OverlaySize(box, test, compact, screen)
        w == size[1]
        h == size[2]
        m == LocalMouse(mouse, screen)
        side == SideChoice(box, w, m, screen)
        x == Max(0, Min(screen.w - w, side.x))
        y == AnchorY(box, h, used_secondary, screen)
        under_y == box[4] + SideGap(screen)
        above_y == box[2] - SideGap(screen) - h
        fits_under == under_y + h <= screen.h - PLACEMENT_MARGIN
        fits_above == above_y >= PLACEMENT_MARGIN
        under == try_place(box[1], under_y, w, h, m, screen)
        above == try_place(box[1], above_y, w, h, m, screen)
    IN  IF side.via \in {"margin", "center"} /\ m # << >> /\ x <= m[1]
        THEN IF fits_under /\ under # << >>
             THEN [x |-> under[1], y |-> under[2], w |-> w, h |-> h, via |-> "under"]
             ELSE IF fits_above /\ above # << >>
             THEN [x |-> above[1], y |-> above[2], w |-> w, h |-> h, via |-> "above"]
             ELSE IF under # << >>
             THEN [x |-> under[1], y |-> under[2], w |-> w, h |-> h, via |-> "under_forced"]
             ELSE [x |-> x, y |-> y, w |-> w, h |-> h, via |-> side.via]
        ELSE [x |-> x, y |-> y, w |-> w, h |-> h, via |-> side.via]

\* The monitors, panels, overlay sizes and pointer positions of the placement
\* calls: a reference monitor and a smaller one right of it, panels of
\* 300x200 on either side of the two fit thresholds, a small and a large
\* overlay, and the pointer unknown or around the panel.
Screens ==
    { [w |-> 1920, h |-> 1080, left |-> 0, top |-> 0],
      [w |-> 1280, h |-> 720, left |-> 1920, top |-> 0] }
PanelLefts == {0, 100, 400, 666, 667, 900, 980, 1306, 1307, 1500, 1620}
PanelTops == {0, 100, 500, 880}
PanelBoxes(screen) ==
    {<< x, y, x + 300, y + 200 >> : x \in {l \in PanelLefts : l + 300 <= screen.w},
                                    y \in {t \in PanelTops : t + 200 <= screen.h}}
OverlaySizes == { << << 300, 200 >>, << 240, 220 >> >>, << << 620, 420 >>, << 500, 420 >> >> }
PointersAround(box, screen) ==
    {<< >>} \cup
    {<< screen.left + mx, screen.top + my >> :
        mx \in {5, box[1] - 1, box[1], box[1] + 150, box[1] + 151, box[3] + 50, screen.w - 5},
        my \in {box[2] - 100, box[2] + 50, box[4] + 10, box[4] + 100}}

\* show_helper_tooltip(row, name, arg[1], used_secondary = arg[5]) with the
\* images of sizes arg[2] and arg[3], the pointer at arg[4], on monitor arg[6]
CallPlace ==
    /\ fn = "none"
    /\ fn' = "show_helper_tooltip"
    /\ ret' = << PlaceOverlay(arg[1], arg[2], arg[3], arg[4], arg[5], arg[6]) >>
    /\ UNCHANGED << arg, loop_vars, HOTKEY_HELD, ocr_task_queue, ocr_result_queue,
                    worker_vars, overlay_vars, history_vars >>

InitPlace ==
    /\ InitIdle
    /\ fn = "none" /\ ret = << >>
    /\ \E screen \in Screens, sizes \in OverlaySizes, used_secondary \in BOOLEAN :
          \E box \in PanelBoxes(screen) :
              \E mouse \in PointersAround(box, screen) :
                  arg = << box, sizes[1], sizes[2], mouse, used_secondary, screen >>

NextPlace == CallPlace

SpecPlace == InitPlace /\ [][NextPlace]_vars

Placed == fn = "show_helper_tooltip"
\* the gap scaled from the reference width, and the panel's horizontal centre
ScaledGapX(screen) == get_helper_gaps(screen)[1]
PanelCenterX(box) == box[1] + ((box[3] - box[1]) \div 2)
ClampX(x, w, screen) == Max(0, Min(screen.w - w, x))

\* C22 as stated: with the pointer unknown, the overlay is at the panel's right
\* edge plus the scaled gap when that fits within the margin; when it does not
\* fit, the overlay is left of the panel if that is on screen and else clamped
\* around the panel's centre.
C22_RightElseLeftIfFits ==
    (Placed /\ arg[4] = << >>) =>
        LET box == arg[1]
            screen == arg[6]
            w == ret[1].w
            gap == ScaledGapX(screen)
            x_left == box[1] - gap - w
        IN  IF box[3] + gap + w <= screen.w - PLACEMENT_MARGIN
            THEN ret[1].x = box[3] + gap
            ELSE IF x_left >= 0 THEN ret[1].x = x_left
            ELSE ret[1].x = ClampX(PanelCenterX(box) - (w \div 2), w, screen)

\* C22 amended: the gap is the scaled gap but at least 4 pixels. When the right
\* side fits within the margin the overlay is there, unless a known pointer is
\* nearer to the right anchor than to the left one, which puts it left. When
\* the right side does not fit, the overlay is left of the panel (clamped to the
\* screen, with no test that it fits) exactly when the pointer is known and
\* right of the panel's centre; with the pointer unknown it is clamped around
\* the panel's centre; with the pointer at or left of the centre it is at the
\* margin, or under or above the panel one pixel left of the panel's clamped
\* left edge.
C22_SideFollowsPointer ==
    Placed =>
        LET box == arg[1]
            screen == arg[6]
            w == ret[1].w
            m == IF arg[4] = << >> THEN << >>
                 ELSE << arg[4][1] - screen.left, arg[4][2] - screen.top >>
            gap == IF ScaledGapX(screen) > 4 THEN ScaledGapX(screen) ELSE 4
            x_right == box[3] + gap
            x_left == box[1] - gap - w
            right_fits == x_right + w <= screen.w - 10
            nearer_right == /\ m # << >>
                            /\ horizontal_distance(m[1], x_right, w)
                                  < horizontal_distance(m[1], x_left, w)
        IN  /\ << ret[1].w, ret[1].h >> =
                  IF box[3] + gap + arg[2][1] <= screen.w - 10 THEN arg[2] ELSE arg[3]
            /\ (right_fits /\ ~nearer_right) => ret[1].x = x_right
            /\ (right_fits /\ nearer_right) => ret[1].x = ClampX(x_left, w, screen)
            /\ (~right_fits /\ m # << >> /\ PanelCenterX(box) < m[1]) =>
                  ret[1].x = ClampX(x_left, w, screen)
            /\ (~right_fits /\ m = << >>) =>
                  ret[1].x = ClampX(PanelCenterX(box) - (w \div 2), w, screen)
            /\ (~right_fits /\ m # << >> /\ m[1] <= PanelCenterX(box)) =>
                  ret[1].x \in { ClampX(10, w, screen),
                                 Max(10, Min(screen.w - 10 - w, box[1])) - 1 }

\* On the reference monitor, with the pointer unknown, neither overlay fits
\* right of the panel at x = 1500..1800 and the compact one would fit left of
\* it at 1256: it was placed around the panel's centre, at x = 1530.
C22_Witness ==
    /\ Placed
    /\ arg[1] = << 1500, 100, 1800, 300 >>
    /\ arg[3] = << 240, 220 >>
    /\ arg[4] = << >>
    /\ arg[6].w = 1920
    /\ ret[1].w = 240
    /\ ret[1].x = 1530

\* ------------------------------------------------------ one panel, end to end
\* convert_trailing_roman_numeral(name): a name of two words or more whose
\* tail reads IV, III, II or I (in either case, with | or L for I) gets the
\* tail replaced by its digit; the patterns are tried in this order.
RomanPatterns ==
    << [roman |-> << "I", "V" >>, digit |-> "4"],
       [roman |-> << "I", "I", "I" >>, digit |-> "3"],
       [roman |-> << "I", "I" >>, digit |-> "2"],
       [roman |-> << "I" >>, digit |-> "1"] >>
convert_trailing_roman_numeral(name) ==
    LET s == rstrip(name)
        TailIs(i) ==
            /\ Len(s) >= Len(RomanPatterns[i].roman)
            /\ MapSeq(SubSeq(s, Len(s) - Len(RomanPatterns[i].roman) + 1, Len(s)), CleanChar)
                   = RomanPatterns[i].roman
        hits == {i \in DOMAIN RomanPatterns : TailIs(i)}
        first == CHOOSE i \in hits : \A j \in hits : i <= j
    IN  IF s = << >> \/ Len(split(s)) < 2 \/ hits = {} THEN name
        ELSE SubSeq(s, 1, Len(s) - Len(RomanPatterns[first].roman))
                 \o << RomanPatterns[first].digit >>

\* The line Tesseract reads in the primary crop of FrameA and FrameA2, the
\* line ocr_item_lines returns for it, and the database name of row 1.
RawLine1 == << "V", "u", "l", "c", "a", "n", "o", " ", "I" >>
CleanedLine1 == convert_trailing_roman_numeral(RawLine1)
RowName1 == << "V", "u", "l", "c", "a", "n", "o", " ", "1" >>

\* The overlay always on, in front of one panel at Box1 whose primary crop
\* reads that line on every frame (with or without capture noise), an OCR
\* engine that does not fail, and no stored override; the hotkey may be
\* pressed and released as well. The loop ticks for ever and the worker
\* thread is scheduled.
ScenarioFrames == {FrameA, FrameA2}
ScenarioTick ==
    \E f \in ScenarioFrames, dt \in TickAdvances : CaptureTick(f, dt, "none", MaxTasks)
NextScenario ==
    \/ ScenarioTick
    \/ DrainOne
    \/ FinishTick
    \/ WorkerStart
    \/ WorkerGet
    \/ WorkerProcess(FALSE)
    \/ HotkeyPress
    \/ HotkeyRelease

SpecScenario ==
    /\ InitQueue
    /\ [][NextScenario]_vars
    /\ WF_vars(ScenarioTick \/ DrainOne \/ FinishTick)
    /\ WF_vars(WorkerStart \/ WorkerGet \/ WorkerProcess(FALSE))

ReferenceScreen == [w |-> REF_W, h |-> REF_H, left |-> 0, top |-> 0]
ShownRightOfPanel ==
    /\ TOOLTIP_VISIBLE
    /\ LAST_SHOWN_ROW # NoneRow
    /\ ITEM_DB[LAST_SHOWN_ROW] = [Name |-> "Vulcano 1", Verdict |-> "SELL"]
    /\ LAST_SHOWN_PANEL_BOX = << 100, 100, 400, 300 >>
    /\ HELPER_SCREEN_RECT # NoneRect
    /\ HELPER_SCREEN_RECT[1] = 400 + ScaledGapX(ReferenceScreen)
    /\ << "Vulcano 1", "SELL" >> \in TOOLTIP_IMAGE_CACHE

RetryTasks == 6
RetryFrames == {FrameA, FrameC, NoPanelFrame}

NextRetry ==
    \/ \E f \in RetryFrames : CaptureTick(f, OCR_MIN_INTERVAL, "none", RetryTasks)
    \/ DrainOne
    \/ FinishTick
    \/ WorkerStart
    \/ WorkerGet
    \/ \E raises \in BOOLEAN : WorkerProcess(raises)

SpecRetry == InitQueue /\ [][NextRetry]_vars

\* a tick that took a task id; one whose task was not put; one that cleared
\* the resolved state (panel lost for the threshold of frames, or gating
\* released)
IsAttemptStep == IsCaptureStep /\ next_task_id' = next_task_id + 1
IsDropStep == IsAttemptStep /\ enqueued' = enqueued
IsClearStep ==
    /\ IsCaptureStep
    /\ last_name_roi_hash' = NoneHash
    /\ \/ ~gating_active'
       \/ missing_frames' >= MISSING_FRAMES_BEFORE_HIDE

\* C26: a tick whose task is not put finds the queue full, leaves it as it
\* was, goes on to its drain phase and has recorded the hash of its name
\* region; the recorded hash changes only in a tick that attempts a dispatch
\* or clears the resolved state; and a tick attempts a dispatch only when the
\* hash of its name region differs from the recorded one. So after a drop
\* the same name region is not dispatched again until its hash changes or
\* the state is cleared.
C26_DroppedTaskNotRetried ==
    [][ /\ IsDropStep =>
              /\ Len(ocr_task_queue) = TASK_QUEUE_MAXSIZE
              /\ ocr_task_queue' = ocr_task_queue
              /\ pc' = "drain"
              /\ last_name_roi_hash' = hash_cache'
        /\ last_name_roi_hash' # last_name_roi_hash => (IsAttemptStep \/ IsClearStep)
        /\ IsAttemptStep =>
              /\ panel_box' # NoneBox
              /\ hash_cache' # last_name_roi_hash
              /\ last_name_roi_hash' = hash_cache' ]_vars

\* The last task id was dropped at the full queue; a later tick, with the
\* interval elapsed, found the panel with the same hash and dispatched
\* nothing.
C26_Witness ==
    /\ pc = "drain"
    /\ panel_box # NoneBox
    /\ next_task_id > 0
    /\ \A i \in DOMAIN enqueued : enqueued[i] # next_task_id
    /\ Len(ocr_task_queue) = TASK_QUEUE_MAXSIZE
    /\ last_name_roi_hash = hash_cache
    /\ ocr_age = OCR_MIN_INTERVAL

\* ------------------------------------------------- one task of the worker
\* The tasks a worker iteration is applied to: either crop missing (0), or a
\* name region whose lines resolve at the first line, at a later line, at
\* more than one line, or at none.
WorkerRois == 0 .. 6
WorkerTasks ==
    [task_id : 1 .. 2, roi_primary : WorkerRois, roi_secondary : WorkerRois,
     panel_box : {Box1, Box2}]

\* one iteration of ocr_db_worker's loop on the task arg[1]; arg[2] tells
\* whether OCR or matching raises
CallWorkerBody ==
    /\ fn = "none"
    /\ fn' = "ocr_db_worker"
    /\ ret' = << TaskResult(arg[1], arg[2]) >>
    /\ UNCHANGED << arg, loop_vars, HOTKEY_HELD, ocr_task_queue, ocr_result_queue,
                    worker_vars, overlay_vars, history_vars >>

InitWorkerBody ==
    /\ InitIdle
    /\ fn = "none" /\ ret = << >>
    /\ arg \in {<< task, raises >> : task \in WorkerTasks, raises \in BOOLEAN}

NextWorkerBody == CallWorkerBody

SpecWorkerBody == InitWorkerBody /\ [][NextWorkerBody]_vars

Processed == fn = "ocr_db_worker" /\ ~arg[2]
\* the positions of the lines of a crop that resolve to a row
ResolvingLines(roi) ==
    {i \in DOMAIN OcrLines(roi) : find_item_row_by_name(OcrLines(roi)[i]) # NoneRow}
FirstOf(S) == CHOOSE i \in S : \A j \in S : i <= j

\* C27: the result of a task carries the first primary-crop line that
\* resolves and its row, with secondary_used false; when no primary line
\* resolves, the first secondary-crop line that resolves and its row, with
\* secondary_used true; and name None, row None, secondary_used false when no
\* line of either crop resolves.
C27_PrimaryThenSecondary ==
    Processed =>
        LET task == arg[1]
            primary == OcrLines(task.roi_primary)
            secondary == OcrLines(task.roi_secondary)
            p == ResolvingLines(task.roi_primary)
            s == ResolvingLines(task.roi_secondary)
        IN  /\ ret[1].task_id = task.task_id /\ ret[1].panel_box = task.panel_box
            /\ p # {} =>
                  /\ ret[1].name = primary[FirstOf(p)]
                  /\ ret[1].row = find_item_row_by_name(primary[FirstOf(p)])
                  /\ ~ret[1].secondary_used
            /\ (p = {} /\ s # {}) =>
                  /\ ret[1].name = secondary[FirstOf(s)]
                  /\ ret[1].row = find_item_row_by_name(secondary[FirstOf(s)])
                  /\ ret[1].secondary_used
            /\ (p = {} /\ s = {}) =>
                  /\ ret[1].name = NoneName /\ ret[1].row = NoneRow
                  /\ ~ret[1].secondary_used

\* The primary crop reads 'xq' only and the secondary crop reads 'xq',
\* 'Vulcano 1', 'Oil': the result is 'Vulcano 1' with its row, from the
\* secondary crop.
C27_Witness ==
    /\ Processed
    /\ arg[1].roi_primary = 2 /\ arg[1].roi_secondary = 6
    /\ ret[1].name = "Vulcano 1" /\ ret[1].row = 1
    /\ ret[1].secondary_used

\* ------------------------------------------------------- pointer avoidance
\* the pointer of a placement call in monitor coordinates, and the calls whose
\* below/above attempt was accepted as not covering it
PointerOf == LocalMouse(arg[4], arg[6])
AcceptedAttempt == Placed /\ ret[1].via \in {"under", "above", "under_forced"}
PointerInside(r, m) ==
    /\ r.x <= m[1] /\ m[1] <= r.x + r.w
    /\ r.y <= m[2] /\ m[2] <= r.y + r.h

\* C30: whenever a below or above placement attempt is accepted as not
\* overlapping the pointer, the rectangle finally used for the overlay
\* (x, y, x+w, y+h) does not contain the pointer position.
C30_AcceptedPlacementAvoidsPointer ==
    AcceptedAttempt => ~PointerInside(ret[1], PointerOf)

\* The call that breaks C30: a panel at the right edge of the reference
\* monitor with the pointer one pixel left of the panel's left edge, below
\* the panel. The attempt at (1500, 304) does not cover the pointer and is
\* accepted, and the overlay is put one pixel further left, at 1499.
C30_PointerOnLeftEdge ==
    /\ Placed
    /\ arg[1] = << 1500, 100, 1800, 300 >>
    /\ arg[3] = << 240, 220 >>
    /\ arg[4] = << 1499, 310 >>
    /\ arg[6].w = REF_W
    /\ ret[1].via = "under"
    /\ ret[1].x = 1499 /\ ret[1].y = 304

\* ----------------------------------------------------------- panel detection
\* A contour of the opened colour mask (the overlay's own rectangle blanked
\* out): its bounding rectangle, twice its area (areas are multiples of one
\* half) and the number of vertices of its simplified polygon.
MIN_AREA == 30000
MIN_FILL_PCT == 80
MAX_VERTICES == 6
MIN_ASPECT_TENTHS == 4
MAX_ASPECT_TENTHS == 18

AreaOk(c) == c.area2 >= 2 * MIN_AREA
\* area / float(w * h) >= min_fill_ratio
FillOk_Half(c) == c.area2 * 100 >= 50 * 2 * (c.w * c.h)
FillOk(c) == c.area2 * 100 >= MIN_FILL_PCT * 2 * (c.w * c.h)
VerticesOk(c) == c.vertices <= MAX_VERTICES
\* not (aspect < 0.4 or aspect > 1.8), aspect = w / float(h)
AspectOk(c) == 10 * c.w >= MIN_ASPECT_TENTHS * c.h /\ 10 * c.w <= MAX_ASPECT_TENTHS * c.h
IsCandidate(c) ==
    /\ c.w > 0 /\ c.h > 0
    /\ AreaOk(c) /\ FillOk(c) /\ VerticesOk(c) /\ AspectOk(c)

\* Products beyond 32 bits, as little-endian sequences of base-1000 digits
RECURSIVE Limbs(_)
Limbs(n) == IF n = 0 THEN << >> ELSE << n % 1000 >> \o Limbs(n \div 1000)
RECURSIVE MulSmall(_, _, _)
MulSmall(L, k, carry) ==
    IF L = << >> THEN Limbs(carry)
    ELSE << (Head(L) * k + carry) % 1000 >> \o MulSmall(Tail(L), k, (Head(L) * k + carry) \div 1000)
BigLess(A, B) ==
    IF Len(A) # Len(B) THEN Len(A) < Len(B)
    ELSE \E i \in DOMAIN A : A[i] < B[i] /\ \A j \in DOMAIN A : j > i => A[j] = B[j]

\* the sort key (x1, -(area * fill_ratio)): c sorts before d when its x is
\* smaller or, at the same x, its area * area / (w * h) is larger
SortsBefore(c, d) ==
    \/ c.x < d.x
    \/ /\ c.x = d.x
       /\ BigLess(MulSmall(MulSmall(Limbs(d.area2), d.area2, 0), c.w * c.h, 0),
                  MulSmall(MulSmall(Limbs(c.area2), c.area2, 0), d.w * d.h, 0))

\* find_tooltip_panel_by_color on the contours of a frame, in the order
\* findContours gives them: the first candidate of the sorted list, or None
find_tooltip_panel_by_color(contours) ==
    LET candidates == SelectSeq(contours, IsCandidate)
        first == SetMin({i \in DOMAIN candidates :
                            \A j \in DOMAIN candidates : ~SortsBefore(candidates[j], candidates[i])})
        best == candidates[first]
    IN  IF candidates = << >> THEN NoneBox
        ELSE << best.x, best.y, best.x + best.w, best.y + best.h >>

\* Contours around each threshold: bounding rectangles of aspect 0.396, 0.4,
\* 1.0, 1.8 and 1.805 and one too small, filled to 50, 80 - , 80 and 85 per
\* cent, with 6 or 7 vertices, at two places.
MaxContours == 2
ContourRects == { << 99, 250 >>, << 100, 250 >>, << 200, 200 >>, << 360, 200 >>,
                  << 361, 200 >>, << 150, 150 >>, << 300, 125 >> }
ContourAreas2(r) ==
    { r[1] * r[2], ((8 * r[1] * r[2]) \div 5) - 1, (8 * r[1] * r[2]) \div 5,
      (17 * r[1] * r[2]) \div 10 }
Contours ==
    { [x |-> x, y |-> 100, w |-> r[1], h |-> r[2], area2 |-> a, vertices |-> v] :
        x \in {100, 500}, r \in {<< 200, 200 >>}, a \in ContourAreas2(<< 200, 200 >>), v \in {6, 7} }
    \cup
    UNION { { [x |-> 300, y |-> 100, w |-> r[1], h |-> r[2], area2 |-> a, vertices |-> 4] :
                a \in {(8 * r[1] * r[2]) \div 5, (17 * r[1] * r[2]) \div 10} } :
            r \in ContourRects }

CallDetect ==
    /\ fn = "none"
    /\ fn' = "find_tooltip_panel_by_color"
    /\ ret' = << find_tooltip_panel_by_color(arg[1]) >>
    /\ UNCHANGED << arg, loop_vars, HOTKEY_HELD, ocr_task_queue, ocr_result_queue,
                    worker_vars, overlay_vars, history_vars >>

InitDetect ==
    /\ InitIdle
    /\ fn = "none" /\ ret = << >>
    /\ arg \in {<< contours >> : contours \in UNION {[1 .. n -> Contours] : n \in 0 .. MaxContours}}

NextDetect == CallDetect

SpecDetect == InitDetect /\ [][NextDetect]_vars

Detected == fn = "find_tooltip_panel_by_color"
\* area >= 30000, fill ratio >= 0.80, at most 6 vertices, aspect in [0.4, 1.8]
Passes(c) ==
    /\ c.area2 >= 60000
    /\ 5 * c.area2 >= 8 * (c.w * c.h)
    /\ c.vertices <= 6
    /\ 5 * c.w >= 2 * c.h /\ 5 * c.w <= 9 * c.h
BoxOf(c) == << c.x, c.y, c.x + c.w, c.y + c.h >>

\* C23: the detector returns None exactly when no contour has area >= 30000,
\* fill ratio >= 0.80, at most 6 vertices and aspect ratio within [0.4, 1.8];
\* otherwise it returns the box of a contour that passes, the leftmost one.
C23_CandidateFilter ==
    Detected =>
        LET passing == {i \in DOMAIN arg[1] : Passes(arg[1][i])}
        IN  /\ (ret[1] = NoneBox) <=> (passing = {})
            /\ ret[1] # NoneBox =>
                  /\ \E i \in passing : ret[1] = BoxOf(arg[1][i])
                  /\ \A i \in passing : ret[1][1] <= arg[1][i].x

\* A shape filled to 50 per cent at x = 100 and one filled to 85 per cent, of
\* aspect 1.0, area 34000 and 6 vertices at x = 500: the second was returned.
C23_Witness ==
    /\ Detected
    /\ arg[1] = << [x |-> 100, y |-> 100, w |-> 200, h |-> 200, area2 |-> 40000, vertices |-> 6],
                   [x |-> 500, y |-> 100, w |-> 200, h |-> 200, area2 |-> 68000, vertices |-> 6] >>
    /\ ret[1] = << 500, 100, 700, 300 >>


\* ---------------------------------------------------- the crafting list
\* str(n) and int(s) for n >= 0
DigitChars == << "0", "1", "2", "3", "4", "5", "6", "7", "8", "9" >>
RECURSIVE str_int(_)
str_int(n) ==
    IF n < 10 THEN << DigitChars[n + 1] >>
    ELSE str_int(n \div 10) \o str_int(n % 10)
DigitValue(c) == CHOOSE d \in 0 .. 9 : str_int(d) = << c >>
RECURSIVE int_str(_)
int_str(s) ==
    IF s = << >> THEN 0
    ELSE 10 * int_str(SubSeq(s, 1, Len(s) - 1)) + DigitValue(s[Len(s)])

\* the lengths of the run of digits that starts s and of the one that ends it
RECURSIVE LeadingDigits(_)
LeadingDigits(s) ==
    IF s # << >> /\ Head(s) \in Digits THEN 1 + LeadingDigits(Tail(s)) ELSE 0
RECURSIVE TrailingDigits(_)
TrailingDigits(s) ==
    IF s # << >> /\ s[Len(s)] \in Digits
    THEN 1 + TrailingDigits(SubSeq(s, 1, Len(s) - 1)) ELSE 0

\* parse_crafting's line for an entry: f"{c}x {name}" when c > 0, else name
CraftLine(e) ==
    IF e.count > 0 THEN str_int(e.count) \o << "x", " " >> \o e.name ELSE e.name

\* re.match(r"^\s*(\d+)\s*[x]\s*(.+)$", line) on a stripped line: the
\* quantity string and the stripped rest; qty = << >> when there is no match
SplitQuantity(line) ==
    LET d == LeadingDigits(line)
        after == lstrip(SubSeq(line, d + 1, Len(line)))
        rest == IF after = << >> THEN << >> ELSE lstrip(Tail(after))
    IN  IF d >= 1 /\ after # << >> /\ Head(after) = "x" /\ rest # << >>
        THEN [qty |-> SubSeq(line, 1, d), rest |-> rest]
        ELSE [qty |-> << >>, rest |-> line]

\* rest.rstrip(",.;: ")
RECURSIVE rstrip_punct(_)
rstrip_punct(s) ==
    IF s # << >> /\ s[Len(s)] \in {",", ".", ";", ":", " "}
    THEN rstrip_punct(SubSeq(s, 1, Len(s) - 1)) ELSE s
\* " ".join(tokens)
RECURSIVE join(_)
join(tokens) ==
    IF tokens = << >> THEN << >>
    ELSE IF Len(tokens) = 1 THEN tokens[1]
    ELSE tokens[1] \o << " " >> \o join(Tail(tokens))
ROMAN_SUFFIXES == { << "I" >>, << "I", "I" >>, << "I", "I", "I" >>, << "I", "V" >> }

\* What the first loop of condense_roman_variants makes of a line: skipped
\* (blank), passed through, or grouped under (base.lower(), qty_str or "").
RomanParse(original) ==
    LET line == strip(original)
        q == SplitQuantity(line)
        tokens == split(rstrip_punct(q.rest))
        grouped == /\ Len(tokens) >= 2
                   /\ TokenClean(tokens[Len(tokens)]) \in ROMAN_SUFFIXES
        base == join(SubSeq(tokens, 1, Len(tokens) - 1))
    IN  IF line = << >> THEN [kind |-> "skip"]
        ELSE IF grouped
        THEN [kind |-> "group", key |-> << MapSeq(base, lower), q.qty >>,
              text |-> IF q.qty # << >> THEN q.qty \o << "x", " " >> \o base ELSE base]
        ELSE [kind |-> "pass"]

\* What the first loop of condense_numeric_suffixes_for_crafting makes of a
\* line: re.match(r"^(.*\D)(\d+)$", rest) takes the whole run of digits that
\* ends rest when a character precedes it.
NumericParse(original) ==
    LET line == strip(original)
        q == SplitQuantity(line)
        t == TrailingDigits(q.rest)
        base == strip(SubSeq(q.rest, 1, Len(q.rest) - t))
    IN  IF line = << >> THEN [kind |-> "skip"]
        ELSE IF t >= 1 /\ t < Len(q.rest)
        THEN [kind |-> "group", key |-> MapSeq(base, lower), base |-> base,
              qty |-> IF q.qty = << >> THEN 0 ELSE int_str(q.qty)]
        ELSE [kind |-> "pass"]

\* the output lines in the order of out_entries.sort: a group stands at the
\* index of its first line, a passed line at its own
RECURSIVE Flatten(_)
Flatten(ss) == IF ss = << >> THEN << >> ELSE Head(ss) \o Flatten(Tail(ss))
IsFirstOfGroup(info, i) ==
    /\ info[i].kind = "group"
    /\ \A j \in 1 .. (i - 1) : ~(info[j].kind = "group" /\ info[j].key = info[i].key)
\* result: the lines not seen before
RECURSIVE Unique(_)
Unique(lines) ==
    IF lines = << >> THEN << >>
    ELSE LET init == Unique(SubSeq(lines, 1, Len(lines) - 1))
             last == lines[Len(lines)]
         IN  IF last \in Range(init) THEN init ELSE Append(init, last)

\* condense_roman_variants(lines, drop_suffix=True)
condense_roman_variants(lines) ==
    LET info == [i \in DOMAIN lines |-> RomanParse(lines[i])]
        Out(i) == IF info[i].kind = "pass" THEN << lines[i] >>
                  ELSE IF IsFirstOfGroup(info, i) THEN << info[i].text >>
                  ELSE << >>
    IN  Flatten([i \in DOMAIN lines |-> Out(i)])

\* the line of the group of line i: the positive quantities' minimum, or
\* their range, in front of the base of the group's first line
GroupText(info, i) ==
    LET qties == {info[j].qty : j \in {k \in DOMAIN info :
                      info[k].kind = "group" /\ info[k].key = info[i].key /\ info[k].qty > 0}}
        mn == SetMin(qties)
        mx == SetMax(qties)
    IN  IF qties = {} THEN info[i].base
        ELSE IF mn = mx THEN str_int(mn) \o << "x", " " >> \o info[i].base
        ELSE str_int(mn) \o << "-" >> \o str_int(mx) \o << "x", " " >> \o info[i].base

condense_numeric_suffixes_for_crafting(lines) ==
    LET info == [i \in DOMAIN lines |-> NumericParse(lines[i])]
        Out(i) == IF info[i].kind = "pass" THEN << lines[i] >>
                  ELSE IF IsFirstOfGroup(info, i) THEN << GroupText(info, i) >>
                  ELSE << >>
    IN  Unique(Flatten([i \in DOMAIN lines |-> Out(i)]))

\* (e.get("category") or "").lower() == "weapon"
IsWeapon_Any(e) == TRUE
IsWeapon(e) == e.category \in {"Weapon", "weapon", "WEAPON"}

\* craft_list of create_helper_tooltip_image for the entries of parse_crafting
CraftList(entries) ==
    LET weapon_lines == MapSeq(SelectSeq(entries, IsWeapon), CraftLine)
        NotWeapon(e) == ~IsWeapon(e)
        other_lines == MapSeq(SelectSeq(entries, NotWeapon), CraftLine)
    IN  condense_numeric_suffixes_for_crafting(condense_roman_variants(weapon_lines))
            \o other_lines

\* The entries of a Crafting column: item names with and without a trailing
\* integer, in either case, with a roman numeral, or all digits; counts
\* missing (0), equal and different, below and above ten; items of the
\* weapon category and of another.
MaxEntries == 2
CraftNames ==
    { << "V", " ", "1" >>, << "V", " ", "3" >>, << "v", " ", "3" >>, << "V" >>,
      << "W", "1", "2" >>, << "V", " ", "I" >>, << "7" >> }
CraftCounts == {0, 2, 12}
CraftCategories == {"Weapon", "Nature"}
CraftEntries == [name : CraftNames, count : CraftCounts, category : CraftCategories]

CallCraft ==
    /\ fn = "none"
    /\ fn' = "create_helper_tooltip_image"
    /\ ret' = << CraftList(arg[1]) >>
    /\ UNCHANGED << arg, loop_vars, HOTKEY_HELD, ocr_task_queue, ocr_result_queue,
                    worker_vars, overlay_vars, history_vars >>

InitCraft ==
    /\ InitIdle
    /\ fn = "none" /\ ret = << >>
    /\ arg \in {<< entries >> : entries \in UNION {[1 .. n -> CraftEntries] : n \in 0 .. MaxEntries}}

NextCraft == CallCraft

SpecCraft == InitCraft /\ [][NextCraft]_vars

Crafted == fn = "create_helper_tooltip_image"
\* The base name of an item name that ends in an integer; << >> for the
\* other names.
NameBase(name) ==
    CASE name = << "V", " ", "1" >> -> << "V" >>
      [] name = << "V", " ", "3" >> -> << "V" >>
      [] name = << "v", " ", "3" >> -> << "v" >>
      [] name = << "W", "1", "2" >> -> << "W" >>
      [] OTHER -> << >>
Bases == {NameBase(n) : n \in CraftNames} \ {<< >>}
\* '<c>x <base>' for one count, '<min>-<max>x <base>' for several
MergedLine(counts, base) ==
    LET mn == CHOOSE c \in counts : \A d \in counts : c <= d
        mx == CHOOSE c \in counts : \A d \in counts : d <= c
    IN  IF mn = mx THEN str_int(mn) \o << "x", " " >> \o base
        ELSE str_int(mn) \o << "-" >> \o str_int(mx) \o << "x", " " >> \o base

\* C24 as stated: the entries of a crafting list whose names differ only by
\* a trailing integer are replaced by one line on their base name, with
\* their count when all counts are equal and with the range of their counts
\* otherwise.
C24_NumberedEntriesMerged ==
    Crafted =>
        \A b \in Bases :
            LET G == {i \in DOMAIN arg[1] : NameBase(arg[1][i].name) = b}
            IN  (\E i, j \in G : arg[1][i].name # arg[1][j].name) =>
                    /\ MergedLine({arg[1][i].count : i \in G}, b) \in Range(ret[1])
                    /\ \A i \in G : CraftLine(arg[1][i]) \notin Range(ret[1])

\* C24 amended: among the entries of the weapon category, those whose names
\* end in an integer and share a base name (compared without case) are
\* replaced by one line on the base name of the first of them: the base name
\* alone when none of them has a positive count, else the count when all
\* positive counts are equal, else the range of the positive counts; a
\* single such entry loses its integer as well. The entries of other
\* categories keep their lines.
C24_NumberedWeaponEntriesMerged ==
    Crafted =>
        LET entries == arg[1]
            Weapons == {i \in DOMAIN entries : entries[i].category = "Weapon"}
            Others == DOMAIN entries \ Weapons
            Numbered == {i \in Weapons : NameBase(entries[i].name) # << >>}
            Group(i) == {j \in Numbered :
                            MapSeq(NameBase(entries[j].name), lower)
                                = MapSeq(NameBase(entries[i].name), lower)}
            First(i) == CHOOSE j \in Group(i) : \A k \in Group(i) : j <= k
            Positive(i) == {entries[j].count : j \in {k \in Group(i) : entries[k].count > 0}}
            Expected(i) ==
                IF Positive(i) = {} THEN NameBase(entries[First(i)].name)
                ELSE MergedLine(Positive(i), NameBase(entries[First(i)].name))
        IN  /\ \A i \in Numbered :
                  /\ Expected(i) \in Range(ret[1])
                  /\ CraftLine(entries[i]) \in Range(ret[1]) =>
                        \E j \in Others : CraftLine(entries[j]) = CraftLine(entries[i])
            /\ \A j \in Others : CraftLine(entries[j]) \in Range(ret[1])

\* The weapon entries ('V 1', 2) and ('V 3', 12) became the one line
\* '2-12x V'.
C24_Witness ==
    /\ Crafted
    /\ arg[1] = << [name |-> << "V", " ", "1" >>, count |-> 2, category |-> "Weapon"],
                   [name |-> << "V", " ", "3" >>, count |-> 12, category |-> "Weapon"] >>
    /\ ret[1] = << << "2", "-", "1", "2", "x", " ", "V" >> >>

\* ------------------------------------------------------- the name regions
NAME_REF_X == 15
NAME_REF_Y == 54
NAME_REF_W == 340
NAME_REF_H == 90
NAME_REF_X2 == 15
NAME_REF_Y2 == 4
NAME_REF_W2 == 340
NAME_REF_H2 == 90

\* a[lo:hi] on an axis of n elements: the slice is clipped to the axis
SliceStart(lo, n) == Min(lo, n)
SliceStop(lo, hi, n) == Max(Min(hi, n), SliceStart(lo, n))

\* The reference rectangle is scaled by the size of the frame, clamped to the
\* frame, and cut out of the panel's sub-image frame_bgr[py1:py2, px1:px2].
\* The result is the index rectangle and the part of the sub-image it selects.
crop_name_region_from_panel_generic(frame, box, ref_x, ref_y, ref_w, ref_h) ==
    LET tooltip_w == SliceStop(box[1], box[3], frame.w) - SliceStart(box[1], frame.w)
        tooltip_h == SliceStop(box[2], box[4], frame.h) - SliceStart(box[2], frame.h)
        tw == frame.w
        th == frame.h
        nx1 == (ref_x * tw) \div REF_W
        ny1 == (ref_y * th) \div REF_H
        nw == (ref_w * tw) \div REF_W
        nh == (ref_h * th) \div REF_H
        cx1 == Max(0, Min(nx1, tw - 1))
        cy1 == Max(0, Min(ny1, th - 1))
        cx2 == Max(cx1 + 1, Min(nx1 + nw, tw))
        cy2 == Max(cy1 + 1, Min(ny1 + nh, th))
    IN  [nx1 |-> cx1, ny1 |-> cy1, nx2 |-> cx2, ny2 |-> cy2,
         of_w |-> tooltip_w, of_h |-> tooltip_h,
         x1 |-> SliceStart(cx1, tooltip_w), x2 |-> SliceStop(cx1, cx2, tooltip_w),
         y1 |-> SliceStart(cy1, tooltip_h), y2 |-> SliceStop(cy1, cy2, tooltip_h)]

crop_name_region_from_panel(frame, box) ==
    crop_name_region_from_panel_generic(frame, box,
        NAME_REF_X, NAME_REF_Y, NAME_REF_W, NAME_REF_H)

crop_name_region_from_panel_alt(frame, box) ==
    crop_name_region_from_panel_generic(frame, box,
        NAME_REF_X2, NAME_REF_Y2, NAME_REF_W2, NAME_REF_H2)

\* Monitors of 720, 1080, 2160 and 2880 lines, and panels the detector can
\* return on them: bounding rectangles of area >= 30000 and aspect within
\* [0.4, 1.8], at the frame's corners and inside it.
FrameSizes ==
    { [w |-> 1280, h |-> 720], [w |-> 1920, h |-> 1080],
      [w |-> 3840, h |-> 2160], [w |-> 5120, h |-> 2880] }
PanelSizes ==
    { << 110, 273 >>, << 232, 130 >>, << 230, 140 >>, << 250, 144 >>,
      << 250, 145 >>, << 300, 200 >>, << 400, 600 >> }
DetectableBoxes(frame) ==
    UNION { { << x, y, x + sz[1], y + sz[2] >> :
                x \in {0, 100, frame.w - sz[1]}, y \in {0, 100, frame.h - sz[2]} } :
            sz \in PanelSizes }

\* the two extractions main_live makes on a frame with a panel
CallCrop ==
    /\ fn = "none"
    /\ fn' = "crop_name_region_from_panel"
    /\ ret' = << crop_name_region_from_panel(arg[1], arg[2]),
                 crop_name_region_from_panel_alt(arg[1], arg[2]) >>
    /\ UNCHANGED << arg, loop_vars, HOTKEY_HELD, ocr_task_queue, ocr_result_queue,
                    worker_vars, overlay_vars, history_vars >>

InitCrop ==
    /\ InitIdle
    /\ fn = "none" /\ ret = << >>
    /\ arg \in UNION { { << frame, box >> : box \in DetectableBoxes(frame) } : frame \in FrameSizes }

NextCrop == CallCrop

SpecCrop == InitCrop /\ [][NextCrop]_vars

Cropped == fn = "crop_name_region_from_panel"
CropWithinImage(c) ==
    /\ 0 <= c.x1 /\ c.x1 <= c.x2 /\ c.x2 <= c.of_w
    /\ 0 <= c.y1 /\ c.y1 <= c.y2 /\ c.y2 <= c.of_h
CropNonEmpty(c) == c.x2 - c.x1 >= 1 /\ c.y2 - c.y1 >= 1

\* C31: for every frame size and every panel box the detector returns, the
\* primary and the secondary name-region crops are at least 1x1 pixels and
\* lie within the image they are cut from.
C31_CropsNonEmptyAndInside ==
    Cropped => \A i \in {1, 2} : CropNonEmpty(ret[i]) /\ CropWithinImage(ret[i])

\* On a 5120x2880 frame the primary rectangle starts at line 144; cut from a
\* panel of 140 lines it selects no line at all.
C31_EmptyPrimaryCrop ==
    /\ Cropped
    /\ arg[1] = [w |-> 5120, h |-> 2880]
    /\ arg[2] = << 100, 100, 330, 240 >>
    /\ ret[1].ny1 = 144 /\ ret[1].of_h = 140
    /\ ret[1].y2 - ret[1].y1 = 0
    /\ CropNonEmpty(ret[2])

\* ------------------------------------------------ semi-structured fields
\* Values of json.loads and ast.literal_eval: None, booleans, integers,
\* strings, lists (tuples alike) and mappings (keys and values, in order).
PyNone == [t |-> "none"]
PyBool(b) == [t |-> "bool", n |-> IF b THEN 1 ELSE 0]
PyInt(n) == [t |-> "int", n |-> n]
PyStr(s) == [t |-> "str", s |-> s]
PyList(items) == [t |-> "list", items |-> items]
PyDict(keys, values) == [t |-> "dict", items |-> keys, values |-> values]
Unparsable == [t |-> "error"]

\* The column texts: well-formed lists, free text, python literals, scalars,
\* a mapping, and lists whose entries are not pairs. None has surrounding
\* white space, so str.strip() leaves each as it is.
Oil == PyStr("Oil")
Gel == PyStr("Gel")
json_loads(raw) ==
    CASE raw = "[[\"Oil\", 2]]" -> PyList(<< PyList(<< Oil, PyInt(2) >>) >>)
      [] raw = "[[\"Oil\", 2], [\"Gel\", 5]]" ->
            PyList(<< PyList(<< Oil, PyInt(2) >>), PyList(<< Gel, PyInt(5) >>) >>)
      [] raw = "[[\"Gel\", 5], [\"Oil\", 2]]" ->
            PyList(<< PyList(<< Gel, PyInt(5) >>), PyList(<< Oil, PyInt(2) >>) >>)
      [] raw = "[[\"Anvil 1\", 3], [\"Anvil 2\", 9]]" ->
            PyList(<< PyList(<< PyStr("Anvil 1"), PyInt(3) >>),
                      PyList(<< PyStr("Anvil 2"), PyInt(9) >>) >>)
      [] raw = "[[\"Bench\", 2, 1]]" -> PyList(<< PyList(<< PyStr("Bench"), PyInt(2), PyInt(1) >>) >>)
      [] raw = "[[\"Oil\"]]" -> PyList(<< PyList(<< Oil >>) >>)
      [] raw = "[[\"Oil\", \"x\"]]" -> PyList(<< PyList(<< Oil, PyStr("x") >>) >>)
      [] raw = "[[\"Oil\", \"3\"]]" -> PyList(<< PyList(<< Oil, PyStr("3") >>) >>)
      [] raw = "[[2, \"Oil\"]]" -> PyList(<< PyList(<< PyInt(2), Oil >>) >>)
      [] raw = "[null, [\"Oil\", 2]]" -> PyList(<< PyNone, PyList(<< Oil, PyInt(2) >>) >>)
      [] raw = "[0]" -> PyList(<< PyInt(0) >>)
      [] raw = "[5]" -> PyList(<< PyInt(5) >>)
      [] raw = "[\"Oil\"]" -> PyList(<< Oil >>)
      [] raw = "[{\"Oil\": 2}]" -> PyList(<< PyDict(<< Oil >>, << PyInt(2) >>) >>)
      [] raw = "{\"Oil\": 2}" -> PyDict(<< Oil >>, << PyInt(2) >>)
      [] raw = "\"Oil\"" -> Oil
      [] raw = "5" -> PyInt(5)
      [] raw = "true" -> PyBool(TRUE)
      [] raw = "null" -> PyNone
      [] raw \in {"Oil, Gel", "[('Oil', 2)]", "('Oil', 2)"} -> Unparsable
literal_eval(raw) ==
    CASE raw = "[('Oil', 2)]" -> PyList(<< PyList(<< Oil, PyInt(2) >>) >>)
      [] raw = "('Oil', 2)" -> PyList(<< Oil, PyInt(2) >>)
      [] raw \in {"Oil, Gel", "null"} -> Unparsable
\* [p.strip() for p in raw.split(",") if p.strip()]
SplitComma(raw) ==
    CASE raw = "Oil, Gel" -> << "Oil", "Gel" >>
      [] raw = "null" -> << "null" >>
RawFields ==
    { "", "[]", "Oil, Gel", "[('Oil', 2)]", "('Oil', 2)",
      "[[\"Oil\", 2]]", "[[\"Oil\", 2], [\"Gel\", 5]]", "[[\"Gel\", 5], [\"Oil\", 2]]",
      "[[\"Anvil 1\", 3], [\"Anvil 2\", 9]]", "[[\"Bench\", 2, 1]]", "[[\"Oil\"]]",
      "[[\"Oil\", \"x\"]]", "[[\"Oil\", \"3\"]]", "[[2, \"Oil\"]]", "[null, [\"Oil\", 2]]",
      "[0]", "[5]", "[\"Oil\"]", "[{\"Oil\": 2}]", "{\"Oil\": 2}", "\"Oil\"", "5", "true", "null" }

\* the characters of the strings that are iterated or indexed
Chars(s) ==
    CASE s = "Oil" -> << "O", "i", "l" >>
      [] s = "Gel" -> << "G", "e", "l" >>
      [] Len(s) = 1 -> << s >>
\* the lower-cased names, lines and categories in the order of str.__lt__
Collation ==
    << "2", "2x bench", "2x oil", "3-9x anvil", "3x oil", "5", "5x gel", "anvil 1",
       "anvil 2", "bench", "gel", "i", "l", "nature", "o", "oil", "{'oil': 2}" >>
Lowered(s) ==
    CASE s = "2x Bench" -> "2x bench" [] s = "2x Oil" -> "2x oil" [] s = "3-9x Anvil" -> "3-9x anvil"
      [] s = "3x Oil" -> "3x oil" [] s = "5x Gel" -> "5x gel" [] s = "Anvil 1" -> "anvil 1"
      [] s = "Anvil 2" -> "anvil 2" [] s = "Bench" -> "bench" [] s = "Gel" -> "gel"
      [] s = "Nature" -> "nature" [] s = "O" -> "o" [] s = "Oil" -> "oil"
      [] s = "{'Oil': 2}" -> "{'oil': 2}" [] OTHER -> s
TextRank(s) == IF s = "" THEN 0 ELSE CHOOSE i \in DOMAIN Collation : Collation[i] = Lowered(s)

\* bool(v), len(v) and iteration, v[0], str(v) and int(v) of these values
Truthy(v) ==
    CASE v.t = "none" -> FALSE
      [] v.t \in {"bool", "int"} -> v.n # 0
      [] v.t = "str" -> v.s # ""
      [] v.t \in {"list", "dict"} -> v.items # << >>
Sized(v) == v.t \in {"str", "list", "dict"}
Elements(v) ==
    IF v.t = "str" THEN [i \in DOMAIN Chars(v.s) |-> PyStr(Chars(v.s)[i])]
    ELSE IF Sized(v) THEN v.items ELSE << >>
DigitStr == << "0", "1", "2", "3", "4", "5", "6", "7", "8", "9" >>
RECURSIVE IntStr(_)
IntStr(n) == IF n < 10 THEN DigitStr[n + 1] ELSE IntStr(n \div 10) \o DigitStr[(n % 10) + 1]
RECURSIVE JoinStr(_, _)
JoinStr(texts, sep) ==
    IF texts = << >> THEN ""
    ELSE IF Len(texts) = 1 THEN texts[1]
    ELSE texts[1] \o sep \o JoinStr(Tail(texts), sep)
RECURSIVE StrOf(_)
StrOf(v) ==
    LET repr(x) == IF x.t = "str" THEN "'" \o x.s \o "'" ELSE StrOf(x)
    IN  CASE v.t = "none" -> "None"
          [] v.t = "bool" -> IF v.n = 1 THEN "True" ELSE "False"
          [] v.t = "int" -> IntStr(v.n)
          [] v.t = "str" -> v.s
          [] v.t = "list" -> "[" \o JoinStr([i \in DOMAIN v.items |-> repr(v.items[i])], ", ") \o "]"
          [] v.t = "dict" ->
                "{" \o JoinStr([i \in DOMAIN v.items |->
                                   repr(v.items[i]) \o ": " \o repr(v.values[i])], ", ") \o "}"
\* try: c = int(count) / except (ValueError, TypeError): c = 0
IntOrZero(v) ==
    CASE v.t \in {"bool", "int"} -> v.n
      [] v.t = "str" ->
            IF \E d \in DOMAIN DigitStr : DigitStr[d] = v.s
            THEN (CHOOSE d \in DOMAIN DigitStr : DigitStr[d] = v.s) - 1 ELSE 0
      [] OTHER -> 0

\* What a parse function does: it returns lines or an exception leaves it.
Returned(lines) == [raised |-> "", lines |-> lines]
Raises(exception) == [raised |-> exception, lines |-> << >>]
\* What one pass of a loop body does with its entry
Skipped == [raised |-> "", skip |-> TRUE, val |-> ""]
Made(val) == [raised |-> "", skip |-> FALSE, val |-> val]
Failed(exception) == [raised |-> exception, skip |-> FALSE, val |-> ""]
\* for entry in data: ... with what the body does for each entry in turn:
\* the values made, or the first exception
ForEach(data, outs) ==
    IF ~Sized(data) THEN Raises("TypeError")
    ELSE LET bad == {i \in DOMAIN outs : outs[i].raised # ""}
             made == SelectSeq(outs, LAMBDA o : ~o.skip)
         IN  IF bad # {} THEN Raises(outs[SetMin(bad)].raised)
             ELSE Returned([i \in DOMAIN made |-> made[i].val])
\* list.sort(key=...) of s with the keys keys[i] of its elements: stable, an
\* element before another when its key is smaller
SortedBy(s, keys) ==
    LET Before(a, b) ==
            \E i \in DOMAIN keys[a] :
                keys[a][i] < keys[b][i] /\ \A j \in 1 .. (i - 1) : keys[a][j] = keys[b][j]
        pos(i) == Cardinality({j \in DOMAIN s :
                        Before(j, i) \/ (~Before(i, j) /\ j < i)}) + 1
    IN  [k \in DOMAIN s |-> s[CHOOSE i \in DOMAIN s : pos(i) = k]]

\* the item table behind get_csv_index_for_name and the category lookup
NoIndex == -1
FieldItems == << [Name |-> "Oil", Category |-> "Nature"] >>
get_csv_index_for_name(name) ==
    IF \E i \in DOMAIN FieldItems : FieldItems[i].Name = name
    THEN (CHOOSE i \in DOMAIN FieldItems : FieldItems[i].Name = name) - 1
    ELSE NoIndex
ItemEntry(item, c) ==
    LET item_name == StrOf(item)
        idx == get_csv_index_for_name(item_name)
    IN  [name |-> item_name, count |-> c, index |-> idx,
         category |-> IF idx # NoIndex THEN FieldItems[idx + 1].Category ELSE ""]
ItemLine(c, name) == IF c > 0 THEN IntStr(c) \o "x " \o name ELSE name

\* re.compile(r"^(.*\D)(\d+)$") on a name, the base stripped; "" without a match
NumericBase(name) == IF name \in {"Anvil 1", "Anvil 2"} THEN "Anvil" ELSE ""

parse_reverse_recycle(raw) ==
    LET Body(entry) ==
            IF ~Truthy(entry) THEN Skipped
            ELSE IF ~Sized(entry) THEN Failed("TypeError")
            ELSE IF entry.t = "dict" THEN Failed("KeyError")
            ELSE LET xs == Elements(entry)
                 IN  Made(ItemEntry(xs[1], IF Len(xs) >= 2 THEN IntOrZero(xs[2]) ELSE 0))
        data == Elements(json_loads(raw))
        parsed == ForEach(json_loads(raw), [i \in DOMAIN data |-> Body(data[i])])
        item_entries == parsed.lines
        group(i) == {j \in DOMAIN item_entries :
                        /\ NumericBase(item_entries[i].name) # ""
                        /\ Lowered(NumericBase(item_entries[j].name)) =
                              Lowered(NumericBase(item_entries[i].name))}
        grouped(i) == Cardinality(group(i)) >= 2
        counts(i) == {item_entries[j].count : j \in group(i)}
        cats(i) == {j \in group(i) : item_entries[j].category # ""}
        out(i) ==
            IF grouped(i)
            THEN [line |-> (IF SetMin(counts(i)) = SetMax(counts(i))
                            THEN IntStr(SetMin(counts(i))) \o "x"
                            ELSE IntStr(SetMin(counts(i))) \o "-" \o IntStr(SetMax(counts(i))) \o "x")
                           \o " " \o NumericBase(item_entries[SetMin(group(i))].name),
                  count_key |-> SetMax(counts(i)),
                  category |-> IF cats(i) = {} THEN "" ELSE item_entries[SetMin(cats(i))].category]
            ELSE [line |-> ItemLine(item_entries[i].count, item_entries[i].name),
                  count_key |-> item_entries[i].count,
                  category |-> item_entries[i].category]
        firsts == SelectSeq([i \in DOMAIN item_entries |-> i],
                            LAMBDA i : ~grouped(i) \/ i = SetMin(group(i)))
        groups_out == [k \in DOMAIN firsts |-> out(firsts[k])]
        key(g) == << IF g.category = "" THEN 1 ELSE 0,
                     IF Lowered(g.category) = "loot" THEN 0 ELSE 1,
                     TextRank(g.category), 0 - g.count_key, TextRank(g.line) >>
        sorted == SortedBy(groups_out, [k \in DOMAIN groups_out |-> key(groups_out[k])])
    IN  IF raw = "" \/ raw = "[]" THEN Returned(<< >>)
        ELSE IF json_loads(raw) = Unparsable THEN Returned(<< raw >>)
        ELSE IF parsed.raised # "" THEN parsed
        ELSE Returned([k \in DOMAIN sorted |-> sorted[k].line])

parse_crafting(raw) ==
    LET loaded == json_loads(raw)
        lit == literal_eval(raw)
        data == IF loaded \notin {Unparsable, PyNone} THEN loaded
                ELSE IF lit.t = "list" THEN lit ELSE PyNone
        parts == SplitComma(raw)
        Body(entry) ==
            IF ~Truthy(entry) THEN Skipped
            ELSE IF entry.t = "list" /\ Len(entry.items) >= 2
                 THEN Made(ItemEntry(entry.items[1], IntOrZero(entry.items[2])))
            ELSE Made(ItemEntry(IF entry.t = "list" THEN entry.items[1] ELSE entry, 0))
        parsed == ForEach(data, [i \in DOMAIN Elements(data) |-> Body(Elements(data)[i])])
        key(e) == IF e.index = NoIndex
                  THEN << 1000000000, 0 - e.count, TextRank(e.name) >>
                  ELSE << e.index, 0, TextRank(e.name) >>
        entries == SortedBy(parsed.lines, [k \in DOMAIN parsed.lines |-> key(parsed.lines[k])])
    IN  IF raw = "" \/ raw = "[]" THEN Returned(<< >>)
        ELSE IF data = PyNone THEN Returned(IF parts # << >> THEN parts ELSE << raw >>)
        ELSE IF parsed.raised # "" THEN parsed
        ELSE Returned([k \in DOMAIN entries |-> ItemLine(entries[k].count, entries[k].name)])

parse_workshop_requirements(raw) ==
    LET Body(entry) ==
            IF ~Truthy(entry) THEN Skipped
            ELSE IF ~Sized(entry) THEN Failed("TypeError")
            ELSE LET xs == Elements(entry)
                 IN  IF Len(xs) = 3
                     THEN Made(StrOf(xs[3]) \o "x " \o StrOf(xs[1]) \o " - Level " \o StrOf(xs[2]))
                     ELSE IF Len(xs) = 2
                     THEN Made(StrOf(xs[2]) \o "x " \o StrOf(xs[1]))
                     ELSE Made(JoinStr([i \in DOMAIN xs |-> StrOf(xs[i])], " "))
        data == Elements(json_loads(raw))
    IN  IF raw = "" \/ raw = "[]" THEN Returned(<< >>)
        ELSE IF json_loads(raw) = Unparsable THEN Returned(<< raw >>)
        ELSE ForEach(json_loads(raw), [i \in DOMAIN data |-> Body(data[i])])

parse_quest_usage(raw) ==
    LET Body(entry) ==
            IF ~Truthy(entry) THEN Skipped
            ELSE IF ~Sized(entry) THEN Failed("TypeError")
            ELSE LET xs == Elements(entry)
                 IN  IF Len(xs) = 2
                     THEN Made(StrOf(xs[1]) \o "x Quest - " \o StrOf(xs[2]))
                     ELSE Made(JoinStr([i \in DOMAIN xs |-> StrOf(xs[i])], " "))
        data == Elements(json_loads(raw))
    IN  IF raw = "" \/ raw = "[]" THEN Returned(<< >>)
        ELSE IF json_loads(raw) = Unparsable THEN Returned(<< raw >>)
        ELSE ForEach(json_loads(raw), [i \in DOMAIN data |-> Body(data[i])])

ParseFunctions ==
    {"parse_reverse_recycle", "parse_crafting", "parse_workshop_requirements", "parse_quest_usage"}

\* one parse function applied to the text of its column
CallParse ==
    /\ fn = "none"
    /\ fn' = arg[1]
    /\ ret' = << CASE arg[1] = "parse_reverse_recycle" -> parse_reverse_recycle(arg[2])
                   [] arg[1] = "parse_crafting" -> parse_crafting(arg[2])
                   [] arg[1] = "parse_workshop_requirements" -> parse_workshop_requirements(arg[2])
                   [] arg[1] = "parse_quest_usage" -> parse_quest_usage(arg[2]) >>
    /\ UNCHANGED << arg, loop_vars, HOTKEY_HELD, ocr_task_queue, ocr_result_queue,
                    worker_vars, overlay_vars, history_vars >>

InitParse ==
    /\ InitIdle
    /\ fn = "none" /\ ret = << >>
    /\ arg \in ParseFunctions \X RawFields

NextParse == CallParse

SpecParse == InitParse /\ [][NextParse]_vars

Parsed == fn \in ParseFunctions

\* C32: for every text of the 'Reverse Recycle', 'Crafting', 'Workshop
\* Requirement' and 'Quest Usage' columns, unparsable text and text of an
\* unexpected shape included, the parse function returns a list of lines and
\* raises nothing.
C32_ParseNeverRaises ==
    Parsed => ret[1].raised = ""

\* The 'Quest Usage' text 5 is valid JSON for a number; the loop over it
\* raised TypeError.
C32_ScalarFieldRaises ==
    /\ Parsed
    /\ fn = "parse_quest_usage"
    /\ arg[2] = "5"
    /\ ret[1].raised = "TypeError"

\* ------------------------------------------------------- long list sections
MAX_RR_LINES == 14
MAX_CRAFT_LINES == 14

\* display_list and hidden of a section with the lines of its list
CapLines_Silent(lines, max_lines) ==
    [display |-> IF Len(lines) > max_lines THEN SubSeq(lines, 1, max_lines) ELSE lines,
     hidden |-> IF Len(lines) > max_lines THEN Len(lines) - max_lines ELSE 0]
CapLines(lines, max_lines) ==
    IF Len(lines) > max_lines
    THEN [display |-> Append(SubSeq(lines, 1, max_lines),
                             "+" \o IntStr(Len(lines) - max_lines) \o " more items..."),
          hidden |-> Len(lines) - max_lines]
    ELSE [display |-> lines, hidden |-> 0]

\* Lists of up to MaxLines lines '1x Oil', '2x Oil', ...
MaxLines == 16
NumberedLines(n, item) == [i \in 1 .. n |-> IntStr(i) \o "x " \o item]

\* the reverse-recycle and the crafting section of create_helper_tooltip_image
CallCap ==
    /\ fn = "none"
    /\ fn' = "create_helper_tooltip_image"
    /\ ret' = << CapLines(arg[1], MAX_RR_LINES), CapLines(arg[2], MAX_CRAFT_LINES) >>
    /\ UNCHANGED << arg, loop_vars, HOTKEY_HELD, ocr_task_queue, ocr_result_queue,
                    worker_vars, overlay_vars, history_vars >>

InitCap ==
    /\ InitIdle
    /\ fn = "none" /\ ret = << >>
    /\ arg \in { << NumberedLines(n, "Oil"), NumberedLines(m, "Gel") >> :
                    n \in 0 .. MaxLines, m \in 0 .. MaxLines }

NextCap == CallCap

SpecCap == InitCap /\ [][NextCap]_vars

Capped == fn = "create_helper_tooltip_image"

\* C33: a reverse-recycle or crafting list of n lines is displayed as its
\* first min(n, 14) lines in their order, followed, iff n > 14, by the one
\* line '+(n-14) more items...'; the displayed list has at most 15 lines and
\* the lines shown plus the count of the summary make n.
C33_ListsCappedAtFourteen ==
    Capped =>
        \A s \in {1, 2} :
            LET n == Len(arg[s])
                shown == Min(n, 14)
                display == ret[s].display
            IN  /\ Len(display) >= shown
                /\ SubSeq(display, 1, shown) = SubSeq(arg[s], 1, shown)
                /\ (n > 14) <=> (Len(display) = shown + 1)
                /\ (n <= 14) <=> (Len(display) = shown)
                /\ n > 14 => display[15] = "+" \o IntStr(n - 14) \o " more items..."
                /\ Len(display) <= 15
                /\ shown + ret[s].hidden = n

\* A reverse-recycle list of 16 lines was cut to 14 and '+2 more items...',
\* and a crafting list of 14 lines was shown whole.
C33_Witness ==
    /\ Capped
    /\ Len(arg[1]) = 16 /\ Len(arg[2]) = 14
    /\ Len(ret[1].display) = 15
    /\ ret[1].display[14] = "14x Oil"
    /\ ret[1].display[15] = "+2 more items..."
    /\ ret[2].display = arg[2]

\* ------------------------------------------------- the overlay stays on screen
\* Overlays up to the largest size that leaves the margin on both sides of a
\* monitor (1260x700 on 1280x720, 1900x1060 on 1920x1080), and one pixel more.
LargeOverlaySizes ==
    { << << 620, 420 >>, << 500, 420 >> >>,
      << << 1260, 700 >>, << 1260, 700 >> >>,
      << << 1900, 1060 >>, << 1900, 1060 >> >>,
      << << 1901, 1061 >>, << 1261, 701 >> >> }

InitFit ==
    /\ InitIdle
    /\ fn = "none" /\ ret = << >>
    /\ \E screen \in Screens, sizes \in LargeOverlaySizes, used_secondary \in BOOLEAN :
          \E box \in PanelBoxes(screen) :
              \E mouse \in PointersAround(box, screen) :
                  arg = << box, sizes[1], sizes[2], mouse, used_secondary, screen >>

SpecFit == InitFit /\ [][NextPlace]_vars

\* C34: for every panel box, pointer position (or none) and overlay of width
\* <= SCREEN_W - 2 * margin and height <= SCREEN_H - 2 * margin, the final
\* position has 0 <= x, x + w <= SCREEN_W, 0 <= y and y + h <= SCREEN_H, on
\* every branch.
C34_OverlayStaysOnScreen ==
    (Placed /\ ret[1].w <= arg[6].w - 20 /\ ret[1].h <= arg[6].h - 20) =>
        /\ 0 <= ret[1].x /\ ret[1].x + ret[1].w <= arg[6].w
        /\ 0 <= ret[1].y /\ ret[1].y + ret[1].h <= arg[6].h

\* An overlay of 1260x700 on the monitor of 1280x720, the pointer above the
\* monitor and left of the panel's centre: no attempt fits, the forced one
\* below the panel was clamped to the margin and put at (9, 10).
C34_Witness ==
    /\ Placed
    /\ arg[6].w = 1280
    /\ ret[1].w = 1260 /\ ret[1].h = 700
    /\ ret[1].via = "under_forced"
    /\ ret[1].x = 9 /\ ret[1].y = 10

\* ------------------------------------------------- the order of the results
\* C35: task ids are handed out one by one, also to a task that is dropped at
\* a full queue; the queue is first-in first-out and the one worker handles
\* one task at a time, so each drained result has an id greater than every
\* id drained before it, and the branch rid < latest_result_id is not taken.
C35_ResultsInIncreasingOrder ==
    [][ /\ next_task_id' # next_task_id => next_task_id' = next_task_id + 1
        /\ enqueued' # enqueued =>
              /\ next_task_id' = next_task_id + 1
              /\ enqueued' = Append(enqueued, next_task_id')
        /\ drained' # drained =>
              LET rid == drained'[Len(drained')]
              IN  /\ drained' = Append(drained, rid)
                  /\ \A i \in DOMAIN drained : drained[i] < rid
                  /\ ~(rid < latest_result_id)
                  /\ latest_result_id' = rid ]_vars

\* Task 3 was dropped at the full queue; the results of tasks 2 and 4 were
\* drained one after the other and both passed the id filter.
C35_Witness ==
    /\ \E i \in DOMAIN drained :
          /\ i > 1
          /\ drained[i] > drained[i - 1] + 1
          /\ \A j \in DOMAIN enqueued : enqueued[j] # drained[i] - 1
    /\ accepted = drained
    /\ latest_result_id = drained[Len(drained)]

\* ------------------------------------------------- the overlay between ticks
EndOfTick == pc = "capture"
Showable == gating_active /\ last_panel_box # NoneBox /\ last_row # NoneRow

\* C36: at the end of every tick the overlay is visible only if gating is
\* active and last_panel_box and last_row are set, and then LAST_SHOWN_ROW is
\* last_row and LAST_SHOWN_PANEL_BOX is last_panel_box; and when one of the
\* three conditions fails the overlay is hidden and LAST_SHOWN_ROW and
\* HELPER_SCREEN_RECT are None.
C36_OverlayVisibility ==
    EndOfTick =>
        /\ TOOLTIP_VISIBLE =>
              /\ Showable
              /\ LAST_SHOWN_ROW = last_row
              /\ LAST_SHOWN_PANEL_BOX = last_panel_box
        /\ ~Showable =>
              /\ ~TOOLTIP_VISIBLE
              /\ LAST_SHOWN_ROW = NoneRow
              /\ HELPER_SCREEN_RECT = NoneRect

\* A tick ended with the overlay shown for the resolved row of the panel.
C36_Witness ==
    /\ EndOfTick
    /\ TOOLTIP_VISIBLE
    /\ last_row # NoneRow /\ LAST_SHOWN_ROW = last_row
    /\ HELPER_SCREEN_RECT # NoneRect
    /\ accepted # << >>


\* ------------------------------------------- the cycle hotkey and the loop
\* cycle_verdict_for_current_item runs in the pynput listener thread, the
\* show branch of main_live in the main thread. The branch is taken here in
\* its two halves, show_helper_tooltip(...) and the three assignments after
\* it, so that the listener can run between them.
RenderDue ==
    /\ ShouldShow(tooltip_active, last_panel_box, last_row)
    /\ NeedsRender(last_row, last_panel_box, LAST_SHOWN_ROW, LAST_SHOWN_PANEL_BOX,
                   TOOLTIP_NEEDS_REFRESH)

\* a tick that ends without entering the show branch
IdleTick == ~RenderDue /\ FinishTick

\* show_helper_tooltip(last_row, ...): renders the image for the verdict in
\* effect now and places the window
ShowTooltip ==
    /\ pc = "drain"
    /\ ocr_result_queue = << >>
    /\ RenderDue
    /\ TOOLTIP_VISIBLE' = TRUE
    /\ HELPER_SCREEN_RECT' = ShownRect(last_panel_box, last_used_secondary)
    /\ TOOLTIP_IMAGE_CACHE' = TOOLTIP_IMAGE_CACHE \cup {ImageCacheKey(last_row, USER_VERDICTS)}
    /\ TOOLTIP_CACHE_KEY' = ImageCacheKey(last_row, USER_VERDICTS)
    /\ pc' = "shown"
    /\ UNCHANGED << always_on, HOTKEY_HELD, gating_active, tooltip_active,
                    panel_box, last_name, last_row, last_panel_box, last_name_roi_hash,
                    last_used_secondary, missing_frames, next_task_id, latest_result_id,
                    res, ocr_age, hash_cache, ocr_task_queue, ocr_result_queue, worker_vars,
                    LAST_SHOWN_ROW, LAST_SHOWN_PANEL_BOX, TOOLTIP_NEEDS_REFRESH,
                    USER_VERDICTS, history_vars, call_vars >>

\* LAST_SHOWN_ROW = last_row; LAST_SHOWN_PANEL_BOX = last_panel_box;
\* TOOLTIP_NEEDS_REFRESH = False
MarkShown ==
    /\ pc = "shown"
    /\ LAST_SHOWN_ROW' = last_row
    /\ LAST_SHOWN_PANEL_BOX' = last_panel_box
    /\ TOOLTIP_NEEDS_REFRESH' = FALSE
    /\ res' = NoneResult
    /\ pc' = "capture"
    /\ UNCHANGED << always_on, HOTKEY_HELD, gating_active, tooltip_active,
                    panel_box, last_name, last_row, last_panel_box, last_name_roi_hash,
                    last_used_secondary, missing_frames, next_task_id, latest_result_id,
                    ocr_age, hash_cache, ocr_task_queue, ocr_result_queue, worker_vars,
                    TOOLTIP_VISIBLE, HELPER_SCREEN_RECT, TOOLTIP_IMAGE_CACHE,
                    TOOLTIP_CACHE_KEY, USER_VERDICTS, history_vars, call_vars >>

\* on_press / on_click for the cycle hotkey: the whole of
\* cycle_verdict_for_current_item(+1) on the row LAST_SHOWN_ROW names, at
\* any position of the loop
CycleHotkey ==
    /\ LAST_SHOWN_ROW # NoneRow
    /\ CycleWrites(<< ITEM_DB[LAST_SHOWN_ROW] >>)
    /\ USER_VERDICTS' =
          DictSet(USER_VERDICTS, ITEM_DB[LAST_SHOWN_ROW].Name,
                  Successor(CurrentVerdict(ITEM_DB[LAST_SHOWN_ROW], USER_VERDICTS)))
    /\ TOOLTIP_NEEDS_REFRESH' = TRUE
    /\ UNCHANGED << loop_vars, HOTKEY_HELD, ocr_task_queue, ocr_result_queue, worker_vars,
                    TOOLTIP_VISIBLE, HELPER_SCREEN_RECT, LAST_SHOWN_ROW,
                    LAST_SHOWN_PANEL_BOX, TOOLTIP_IMAGE_CACHE, TOOLTIP_CACHE_KEY,
                    history_vars, call_vars >>

\* The scenario of one panel that stays in front of the always-on overlay,
\* with the cycle hotkey. The loop ticks for ever and the worker thread is
\* scheduled; the user presses the cycle hotkey when they like.
NextRace ==
    \/ ScenarioTick
    \/ DrainOne
    \/ IdleTick
    \/ ShowTooltip
    \/ MarkShown
    \/ WorkerStart
    \/ WorkerGet
    \/ WorkerProcess(FALSE)
    \/ CycleHotkey

SpecRace ==
    /\ InitQueue
    /\ [][NextRace]_vars
    /\ WF_vars(ScenarioTick \/ DrainOne \/ IdleTick \/ ShowTooltip \/ MarkShown)
    /\ WF_vars(WorkerStart \/ WorkerGet \/ WorkerProcess(FALSE))

\* the overlay shows the verdict in effect for the row it is shown for
DisplayedVerdictCurrent ==
    (TOOLTIP_VISIBLE /\ LAST_SHOWN_ROW # NoneRow)
        => TOOLTIP_CACHE_KEY = ImageCacheKey(LAST_SHOWN_ROW, USER_VERDICTS)

\* C37: no cycle action is lost to the capture loop: while the item stays
\* shown, the overlay is rendered again after every cycle action, so the
\* verdict it displays never stays different from get_effective_verdict of
\* the shown row for ever.
C37_CycleNeverLost == []<>DisplayedVerdictCurrent

\* a cycle action that fell between show_helper_tooltip and the clearing of
\* the flag: the tick is over, nothing asks for a refresh, and the overlay
\* shows the verdict of before the action
C37_LostCycle ==
    /\ pc = "capture"
    /\ ~TOOLTIP_NEEDS_REFRESH
    /\ last_row # NoneRow /\ last_row = LAST_SHOWN_ROW
    /\ last_panel_box = LAST_SHOWN_PANEL_BOX
    /\ ~DisplayedVerdictCurrent


\* ------------------------------------------------ shutdown and the worker
\* The run of SpecQueue, in which the loop can dispatch faster than the
\* worker takes tasks, ended by a KeyboardInterrupt at any point, with the
\* worker thread scheduled: it is started by run_helper before main_live and
\* runs until it takes the sentinel.
NextStop == NextQueue \/ Shutdown

SpecStop ==
    /\ InitQueue
    /\ [][NextStop]_vars
    /\ WF_vars(WorkerStart \/ WorkerGet \/ (\E raises \in BOOLEAN : WorkerProcess(raises)))

WorkerStopped == worker_pc = "done" /\ OCR_API = "None"

\* C38: whenever main_live has left its loop the sentinel is in the task
\* queue, whatever the number of tasks queued, and the scheduled worker
\* takes it, ends and releases the OCR engine.
C38_ShutdownStopsWorker == (pc = "stopped") ~> WorkerStopped

\* main_live has returned, the worker has taken everything from the task
\* queue and waits in get() for a sentinel that was never put
C38_WorkerNeverStops ==
    /\ pc = "stopped"
    /\ worker_pc = "get"
    /\ ocr_task_queue = << >>
    /\ OCR_API # "None"


\* ------------------------------------------- the cycle and the lookup
\* C39: right after cycle_verdict_for_current_item has stored an override
\* for the shown row, get_effective_verdict of that row is the verdict just
\* stored, for every name of the database, those with leading or trailing
\* whitespace included.
C39_CycleLookupRoundTrip ==
    (Cycled /\ ret # << >>) =>
        get_effective_verdict(arg[1], USER_VERDICTS) = ret[Len(ret)].written

\* the row 'Oil ' of verdict KEEP was cycled once in an empty store:
\* RECYCLE is stored under 'Oil ' and the lookup, under 'Oil', finds KEEP
C39_StoredOverrideNotFound ==
    /\ Cycled
    /\ arg = << [Name |-> "Oil ", Verdict |-> "KEEP"] >>
    /\ Len(ret) = 1 /\ ret[1].before = << >>
    /\ USER_VERDICTS = [k \in {"Oil "} |-> "RECYCLE"]
    /\ get_effective_verdict(arg[1], USER_VERDICTS) = "KEEP"


\* ---------------------------------------------------- eventual display
\* The always-on overlay in front of a panel whose name region may change
\* from tick to tick and then stay, with an OCR engine that does not fail.
\* The loop ticks for ever and the worker thread is scheduled, at any speed.
DisplayTick ==
    \E f \in QueueFrames : CaptureTick(f, OCR_MIN_INTERVAL, "none", QueueTasks)
NextDisplay ==
    \/ DisplayTick
    \/ DrainOne
    \/ FinishTick
    \/ WorkerStart
    \/ WorkerGet
    \/ WorkerProcess(FALSE)

SpecDisplay ==
    /\ InitQueue
    /\ [][NextDisplay]_vars
    /\ WF_vars(DisplayTick \/ DrainOne \/ FinishTick)
    /\ WF_vars(WorkerStart \/ WorkerGet \/ WorkerProcess(FALSE))

\* the tick under way grabbed FrameA: the panel at Box1 with the name
\* region that reads 'Vulcano 1', row 1 of the database
PanelDetected ==
    pc = "drain" =>
        /\ gating_active
        /\ panel_box = FrameA.panel_box
        /\ hash_cache = RoiGray(FrameA.roi_primary)
ShownForItsRow ==
    TOOLTIP_VISIBLE /\ LAST_SHOWN_ROW = find_item_row_by_name(OcrLines(FrameA.roi_primary)[1])

\* C40: from any point from which gating stays active and every tick detects
\* the same panel with the same resolvable name region, the overlay is
\* eventually shown for the row of that name; the pipeline does not stay for
\* ever with the panel detected and no overlay.
C40_EventualDisplay ==
    []( ([]PanelDetected /\ []<>(pc = "drain")) => <>ShownForItsRow )

\* the tick that first saw the name region found the task queue full: its
\* hash is recorded, no task for it was put, the worker has emptied the
\* queue and every result is drained, and no row is resolved
C40_NoOverlayForDetectedPanel ==
    /\ pc = "drain" /\ PanelDetected
    /\ last_name_roi_hash = RoiGray(FrameA.roi_primary)
    /\ ocr_task_queue = << >> /\ ocr_result_queue = << >> /\ worker_pc = "get"
    /\ last_row = NoneRow
    /\ ~TOOLTIP_VISIBLE

====
